---- MODULE Spec2Model ----
(***************************************************************************)
(* Sales dashboard: the Table-Set Loader (googleSheetsLoader.ts), the      *)
(* provider that holds its result (SalesDataContext.tsx), the CSV row      *)
(* parser and the typed-entity coercers.                                   *)
(***************************************************************************)
EXTENDS Integers, Sequences, FiniteSets, TLC

(***************************************************************************)
(* Bounds of the model                                                     *)
(***************************************************************************)
\* number of loadData() calls (initial effect + refetch) in one run
MaxLoads == 2

(***************************************************************************)
(* Sheets.  The loader fetches 14 required and 9 optional sheets; all      *)
(* required sheets go through `sheet', all optional ones through           *)
(* `fetchSheetOptional', so two required sheets and one optional sheet     *)
(* stand for them.                                                         *)
(***************************************************************************)
RequiredSheets == {"SalesKPIs", "QuarterDeal"}

OptionalSheets == {"QuarterTargets"}

Sheets == RequiredSheets \cup OptionalSheets

\* underlying causes of a failed fetch: !res.ok (status) or a rejected fetch()
Causes == {"404", "network"}

\* googleSheetsConfig.sheetGids: the set of sheet names with a non-empty GID.
\* isGoogleSheetsConfigured() holds iff at least one GID is non-empty.
SheetGidConfigs == {g \in SUBSET Sheets : g # {}}

VARIABLES
  sheetGids,    \* configuration: sheets that have a GID
  loads,        \* sequence of loadGoogleSheetsData() calls, in request order
  googleData,   \* provider state: <<>> (null) or <<table set>>
  loading,      \* provider state: BOOLEAN
  error         \* provider state: <<>> (null) or <<message>>

VARIABLES
  fields,       \* row parser: the field values to serialise
  quoted,       \* row parser: which of them the writer wrapped in quotes
  line,         \* row parser: the delimited line
  parsed,       \* row parser: the output of parseCSVLine
  pstep         \* row parser: "idle", "input", "line" or "parsed"

VARIABLES
  kind,         \* entity mapper: the table the raw record belongs to
  rawRow,       \* entity mapper: one raw record (normalized header -> cell)
  entity,       \* entity mapper: the typed entity built from rawRow
  estep         \* entity mapper: "idle", "raw" or "typed"

VARIABLES
  csv,          \* table parser: the CSV text of one sheet
  csvRows,      \* table parser: the records parseCSV returns
  cstep         \* table parser: "idle", "text" or "parsed"

VARIABLES
  raw,          \* coercers: the cell text
  coercer,      \* coercers: "num" or "parseSheetNumber" once one was applied
  coerced,      \* coercers: the number returned
  nstep         \* coercers: "idle", "raw" or "coerced"

VARIABLES
  data,             \* aggregators: the VolumeDataRow sequence
  forecastBySeg,    \* aggregators: googleData.forecastPointBySegment
  forecastPoint,    \* aggregators: googleData.forecastPoint
  selectedSegments, \* aggregators: the filter selection (a set of segments)
  buckets,          \* aggregators: the buckets returned, in output order
  astep             \* aggregators: "idle", "input" or the grouping applied

VARIABLES
  quarter,          \* quarter tab: the quarter shown
  projectionMetric, \* quarter tab: the metric of the projection waterfall
  asOfDate,         \* quarter tab: getAsOfDateString(), as YYYY-MM-DD
  quarterDeal,      \* quarter tab: googleData.quarterDeal
  tabSegments,      \* quarter tab: its selectedSegments (a set of segments)
  metricInput,      \* quarter tab: the sheet's QuarterMetricInput, <<>> = null
  q1Rows,           \* quarter tab: q1DetailsView.rowsToShow (<<>> = no view)
  q2Rows,           \* quarter tab: q2DetailsView.rowsToShow (<<>> = no view)
  waterfall,        \* quarter tab: the rows waterfallData returns
  wstep             \* quarter tab: "idle", "input" or "shown"

VARIABLES
  viewFn,       \* derived views: the function applied ("" before any)
  viewArg,      \* derived views: its argument besides the rows
  viewRows,     \* derived views: the rows of the table it reads
  viewOut,      \* derived views: what it returned
  vstep         \* derived views: "idle", "input" or "done"

loaderVars == <<sheetGids, loads, googleData, loading, error>>

parserVars == <<fields, quoted, line, parsed, pstep>>

entityVars == <<kind, rawRow, entity, estep>>

csvVars == <<csv, csvRows, cstep>>

\* the variables of the calculations specified apart from loader, row parser
\* and entity mapper
coerceVars == <<raw, coercer, coerced, nstep>>

aggVars == <<data, forecastBySeg, forecastPoint, selectedSegments, buckets, astep>>

waterfallVars == <<quarter, projectionMetric, asOfDate, quarterDeal, tabSegments,
                   metricInput, q1Rows, q2Rows, waterfall, wstep>>

viewVars == <<viewFn, viewArg, viewRows, viewOut, vstep>>

calcVars == <<csvVars, coerceVars, aggVars, waterfallVars, viewVars>>

vars == <<sheetGids, loads, googleData, loading, error,
          fields, quoted, line, parsed, pstep, kind, rawRow, entity, estep,
          csv, csvRows, cstep, raw, coercer, coerced, nstep,
          data, forecastBySeg, forecastPoint, selectedSegments, buckets, astep,
          quarter, projectionMetric, asOfDate, quarterDeal, tabSegments,
          metricInput, q1Rows, q2Rows, waterfall, wstep,
          viewFn, viewArg, viewRows, viewOut, vstep>>

(***************************************************************************)
(* fetchSheet / sheet / fetchSheetOptional                                 *)
(***************************************************************************)
Value(rows) == [kind |-> "value", rows |-> rows, msg |-> <<>>]

Throw(msg) == [kind |-> "throw", rows |-> <<>>, msg |-> msg]

\* a response of the network to the fetch of sheet `name' issued by load l
OkResponse(l, name) == [ok |-> TRUE, rows |-> <<[sheet |-> name, load |-> l]>>, cause |-> ""]

FailResponse(cause) == [ok |-> FALSE, rows |-> <<>>, cause |-> cause]

\* fetchSheet after the GID check: throws on a failed response, else parsed rows
fetchSheet(name, resp) ==
  IF ~resp.ok THEN Throw(<<[sheet |-> "", cause |-> resp.cause]>>)
  ELSE Value(resp.rows)

fetchSheetOptional_rethrow(name, resp) == fetchSheet(name, resp)

\* fetchSheetOptional: [] on failure
fetchSheetOptional(name, resp) ==
  LET r == fetchSheet(name, resp)
  IN IF r.kind = "throw" THEN Value(<<>>) ELSE r

sheet_swallow(name, resp) == fetchSheetOptional(name, resp)

sheet_anonymous(name, resp) == fetchSheet(name, resp)

\* the `sheet' wrapper of loadGoogleSheetsData: rethrows with the sheet's name
\* and the underlying message
sheet(name, resp) ==
  LET r == fetchSheet(name, resp)
  IN IF r.kind = "throw"
       THEN Throw(<<[sheet |-> name, cause |-> r.msg[1].cause]>>)
       ELSE r

\* a sheet without GID is never fetched: fetchSheet returns [] at once, and an
\* optional sheet without GID is Promise.resolve([])
StartFetch(name, gids) == IF name \in gids THEN "pending" ELSE "nogid"

promiseAll_requiredOnly(status) == \A t \in RequiredSheets : status[t] # "pending"

promiseAll_allFetched(status) == \A t \in Sheets : status[t] = "ok"

\* Promise.all fulfils when every element has fulfilled
promiseAll(status) == \A t \in Sheets : status[t] # "pending"

setGoogleData_merge(prev, result) ==
  IF prev = <<>> THEN <<result>>
  ELSE <<[t \in Sheets |-> IF result[t] = <<>> THEN prev[1][t] ELSE result[t]]>>

\* .then(setGoogleData): the state holds the object the load returned
setGoogleData(prev, result) == <<result>>

\* .catch((e) => setError(e.message))
setError(prev, msg) == msg

(***************************************************************************)
(* The provider                                                            *)
(***************************************************************************)
NewLoad(gids) ==
  [status    |-> [t \in Sheets |-> StartFetch(t, gids)],
   cause     |-> [t \in Sheets |-> ""],
   rows      |-> [t \in Sheets |-> <<>>],
   outcome   |-> "pending",
   result    |-> <<>>,
   rejection |-> <<>>]

LoaderIdle ==
  /\ sheetGids = {}
  /\ loads = <<>>
  /\ googleData = <<>>
  /\ loading = FALSE
  /\ error = <<>>

ParserIdle ==
  /\ fields = <<>>
  /\ quoted = <<>>
  /\ line = <<>>
  /\ parsed = <<>>
  /\ pstep = "idle"

EntityIdle ==
  /\ kind = ""
  /\ rawRow = <<>>
  /\ entity = <<>>
  /\ estep = "idle"

CsvIdle ==
  /\ csv = <<>>
  /\ csvRows = <<>>
  /\ cstep = "idle"

CoerceIdle ==
  /\ raw = <<>>
  /\ coercer = ""
  /\ coerced = <<>>
  /\ nstep = "idle"

AggIdle ==
  /\ data = <<>>
  /\ forecastBySeg = <<>>
  /\ forecastPoint = <<>>
  /\ selectedSegments = {}
  /\ buckets = <<>>
  /\ astep = "idle"

WaterfallIdle ==
  /\ quarter = "2026Q1"
  /\ projectionMetric = "acv"
  /\ asOfDate = <<>>
  /\ quarterDeal = <<>>
  /\ tabSegments = {}
  /\ metricInput = <<>>
  /\ q1Rows = <<>>
  /\ q2Rows = <<>>
  /\ waterfall = <<>>
  /\ wstep = "idle"

ViewIdle ==
  /\ viewFn = ""
  /\ viewArg = <<>>
  /\ viewRows = <<>>
  /\ viewOut = <<>>
  /\ vstep = "idle"

CalcIdle == CsvIdle /\ CoerceIdle /\ AggIdle /\ WaterfallIdle /\ ViewIdle

LoaderInit ==
  /\ sheetGids \in SheetGidConfigs
  /\ loads = <<>>
  /\ googleData = <<>>
  /\ loading = FALSE
  /\ error = <<>>

\* loadData(): the mount effect and every refetch()
LoadData ==
  /\ Len(loads) < MaxLoads
  /\ loads' = Append(loads, NewLoad(sheetGids))
  /\ loading' = TRUE
  /\ error' = <<>>
  /\ UNCHANGED <<sheetGids, googleData, parserVars, entityVars, calcVars>>

\* One fetch of load l settles with response resp; the continuation of
\* loadGoogleSheetsData and the then/catch/finally chain of loadData run in
\* the same turn of the event loop.
Settle(l, t, resp) ==
  LET ld == loads[l]
      r == IF t \in RequiredSheets THEN sheet(t, resp) ELSE fetchSheetOptional(t, resp)
      status2 == [ld.status EXCEPT ![t] = IF resp.ok THEN "ok" ELSE "failed"]
      cause2 == [ld.cause EXCEPT ![t] = IF t \in RequiredSheets THEN resp.cause ELSE ""]
      rows2 == [ld.rows EXCEPT ![t] = r.rows]
      rejects == ld.outcome = "pending" /\ r.kind = "throw"
      fulfils == ld.outcome = "pending" /\ r.kind = "value" /\ promiseAll(status2)
  IN /\ ld.status[t] = "pending"
     /\ loads' = [loads EXCEPT ![l] =
                    [status    |-> status2,
                     cause     |-> cause2,
                     rows      |-> rows2,
                     outcome   |-> IF rejects THEN "rejected"
                                   ELSE IF fulfils THEN "fulfilled" ELSE ld.outcome,
                     result    |-> IF fulfils THEN <<rows2>> ELSE ld.result,
                     rejection |-> IF rejects THEN r.msg ELSE ld.rejection]]
     /\ googleData' = IF fulfils THEN setGoogleData(googleData, rows2) ELSE googleData
     /\ error' = IF rejects THEN setError(error, r.msg) ELSE error
     /\ loading' = IF rejects \/ fulfils THEN FALSE ELSE loading
     /\ UNCHANGED <<sheetGids, parserVars, entityVars, calcVars>>

FetchOk ==
  \E l \in 1..Len(loads) : \E t \in Sheets : Settle(l, t, OkResponse(l, t))

FetchFail ==
  \E l \in 1..Len(loads) : \E t \in Sheets : \E c \in Causes : Settle(l, t, FailResponse(c))

(***************************************************************************)
(* Properties of the loader                                                *)
(***************************************************************************)
Settled(ld) == \A t \in Sheets : ld.status[t] # "pending"

RequiredFailed(ld) == \E t \in RequiredSheets : ld.status[t] = "failed"

\* the rows a load holds for sheet t once its fetch has succeeded
FetchedRows(l, t) == <<[sheet |-> t, load |-> l]>>

\* C1: a load in which the fetch of some required sheet failed ends rejected
\* and returns no table set; no row fetched by that load is ever served.
C1_NoPartialResult ==
  \A l \in 1..Len(loads) :
    RequiredFailed(loads[l]) =>
      /\ loads[l].outcome = "rejected"
      /\ loads[l].result = <<>>
      /\ googleData # <<>> => \A t \in Sheets : googleData[1][t] # FetchedRows(l, t)

\* a load in which one required sheet arrived and the other failed, all settled
C1_Witness ==
  \E l \in 1..Len(loads) :
    /\ Settled(loads[l])
    /\ loads[l].status["SalesKPIs"] = "ok"
    /\ loads[l].status["QuarterDeal"] = "failed"

AllLoadsSettled == \A l \in 1..Len(loads) : loads[l].outcome # "pending"

\* C2: last-load-wins: once every requested load has settled, the exposed
\* table set and error are those of the most recently requested load.
C2_LastLoadWins ==
  (loads # <<>> /\ AllLoadsSettled) =>
    LET last == loads[Len(loads)]
    IN IF last.outcome = "fulfilled"
         THEN googleData = last.result /\ error = <<>>
         ELSE error = last.rejection

LoaderState ==
  IF loading THEN "loading"
  ELSE IF error # <<>> THEN "errored"
  ELSE IF googleData # <<>> THEN "loaded"
  ELSE "idle"

AllowedTransitions ==
  {<<"idle", "loading">>, <<"loading", "loaded">>, <<"loading", "errored">>,
   <<"loaded", "loading">>, <<"errored", "loading">>}

\* C4: the loader is idle, loading, loaded or errored and changes state only
\* by idle -> loading, loading -> loaded, loading -> errored and, on a
\* reload, loaded/errored -> loading; every request enters loading.
C4_OnlyLoaderTransitions ==
  [][/\ LoaderState' # LoaderState => <<LoaderState, LoaderState'>> \in AllowedTransitions
     /\ Len(loads') > Len(loads) => LoaderState' = "loading"]_vars

\* C5: the served table set is at every moment, as a whole, the table set
\* returned by one single fulfilled load.
C5_WholeReplace ==
  googleData # <<>> =>
    \E l \in 1..Len(loads) :
      loads[l].outcome = "fulfilled" /\ googleData = loads[l].result

\* a reload has replaced the table set of an earlier load by a different one
C5_Witness ==
  /\ Len(loads) >= 2
  /\ loads[1].outcome = "fulfilled"
  /\ loads[2].outcome = "fulfilled"
  /\ googleData = loads[2].result
  /\ loads[1].result # loads[2].result
  /\ \E t \in Sheets : loads[2].result[1][t] = <<>> /\ loads[1].result[1][t] # <<>>

\* C6: while a load-level error is shown, no table data is served with it.
C6_ErrorMeansNoData == error # <<>> => googleData = <<>>

\* C7: a failed or unconfigured optional sheet is an empty sequence in the
\* result; it never rejects the load, never reaches the error shown to the
\* user, and the sheets that were fetched are in the result.
C7_OptionalNeverFatal ==
  /\ \A l \in 1..Len(loads) :
       /\ \A t \in OptionalSheets :
            loads[l].status[t] \in {"failed", "nogid"} => loads[l].rows[t] = <<>>
       /\ loads[l].outcome = "rejected" => RequiredFailed(loads[l])
       /\ (Settled(loads[l]) /\ ~RequiredFailed(loads[l])) =>
            /\ loads[l].outcome = "fulfilled"
            /\ \A t \in Sheets :
                 loads[l].result[1][t] =
                   IF loads[l].status[t] = "ok" THEN FetchedRows(l, t) ELSE <<>>
  /\ error # <<>> => error[1].sheet \in RequiredSheets

\* a load served although the fetch of its optional sheet failed
C7_Witness ==
  \E l \in 1..Len(loads) :
    /\ loads[l].status["QuarterTargets"] = "failed"
    /\ loads[l].status["SalesKPIs"] = "ok"
    /\ loads[l].status["QuarterDeal"] = "ok"
    /\ googleData = loads[l].result
    /\ error = <<>>

\* C8: the error of a rejected load names a required sheet whose fetch failed
\* in that load together with the cause of that failure, and the error shown
\* by the provider is the error of a rejected load.
C8_ErrorNamesSheetAndCause ==
  /\ \A l \in 1..Len(loads) :
       loads[l].outcome = "rejected" =>
         LET m == loads[l].rejection[1]
         IN /\ m.sheet \in RequiredSheets
            /\ loads[l].status[m.sheet] = "failed"
            /\ loads[l].cause[m.sheet] = m.cause
  /\ error # <<>> =>
       \E l \in 1..Len(loads) : loads[l].outcome = "rejected" /\ error = loads[l].rejection

\* the provider shows the error of the failed QuarterDeal fetch
C8_Witness ==
  /\ error = <<[sheet |-> "QuarterDeal", cause |-> "404"]>>
  /\ ~loading

\* a load is in flight from its request until its promise settles
InFlight(l) == loads[l].outcome = "pending"

\* C25: the loading flag is true exactly while at least one load is in
\* flight, whatever the interleaving of reload requests and completions.
C25_LoadingIffInFlight ==
  loading <=> \E l \in 1..Len(loads) : InFlight(l)

\* C26: a load never fulfils with an empty sequence standing in for a
\* required sheet that has no GID; such a load ends rejected, as it does
\* after a failed fetch.
C26_RequiredWithoutGidRejects ==
  \A l \in 1..Len(loads) :
    /\ loads[l].outcome = "fulfilled" =>
         \A t \in RequiredSheets : loads[l].status[t] = "ok"
    /\ (Settled(loads[l]) /\ \E t \in RequiredSheets : t \notin sheetGids) =>
         loads[l].outcome = "rejected"

(***************************************************************************)
(* Strings are sequences of one-character strings.                         *)
(***************************************************************************)
\* longest field value and most fields of a serialised line
MaxFieldLen == 2

MaxFields == 2

Quote == "\""

Comma == ","

\* \s of the regular expressions and of String.prototype.trim
IsSpace(c) == c \in {" ", "\t", "\n", "\r"}

RECURSIVE TrimStart(_)
TrimStart(s) == IF s # <<>> /\ IsSpace(s[1]) THEN TrimStart(Tail(s)) ELSE s

RECURSIVE TrimEnd(_)
TrimEnd(s) ==
  IF s # <<>> /\ IsSpace(s[Len(s)]) THEN TrimEnd(SubSeq(s, 1, Len(s) - 1)) ELSE s

\* String.prototype.trim
Trim(s) == TrimEnd(TrimStart(s))

\* .replace(/^"|"$/g, ''): drops one leading and one trailing double quote
StripQuotes(s) ==
  LET s1 == IF s # <<>> /\ s[1] = Quote THEN Tail(s) ELSE s
  IN IF s1 # <<>> /\ s1[Len(s1)] = Quote THEN SubSeq(s1, 1, Len(s1) - 1) ELSE s1

RECURSIVE ReadQuoted_noEscape(_, _, _)
ReadQuoted_noEscape(ln, i, val) ==
  IF i > Len(ln) THEN [val |-> val, i |-> i]
  ELSE IF ln[i] = Quote THEN [val |-> val, i |-> i + 1]
  ELSE ReadQuoted_noEscape(ln, i + 1, Append(val, ln[i]))

RECURSIVE ReadQuoted_commaEnds(_, _, _)
ReadQuoted_commaEnds(ln, i, val) ==
  IF i > Len(ln) THEN [val |-> val, i |-> i]
  ELSE IF ln[i] = Comma THEN [val |-> val, i |-> i]
  ELSE IF ln[i] = Quote
    THEN IF i + 1 <= Len(ln) /\ ln[i + 1] = Quote
           THEN ReadQuoted_commaEnds(ln, i + 2, Append(val, Quote))
           ELSE [val |-> val, i |-> i + 1]
  ELSE ReadQuoted_commaEnds(ln, i + 1, Append(val, ln[i]))

\* parseCSVLine, inner loop of a quoted field: i is the (1-based) position
\* after the opening quote; returns the value and the position after the
\* closing quote
RECURSIVE ReadQuoted(_, _, _)
ReadQuoted(ln, i, val) ==
  IF i > Len(ln) THEN [val |-> val, i |-> i]
  ELSE IF ln[i] = Quote
    THEN IF i + 1 <= Len(ln) /\ ln[i + 1] = Quote
           THEN ReadQuoted(ln, i + 2, Append(val, Quote))
           ELSE [val |-> val, i |-> i + 1]
  ELSE ReadQuoted(ln, i + 1, Append(val, ln[i]))

\* parseCSVLine, inner loop of an unquoted field: reads up to the next comma
RECURSIVE ReadUnquoted(_, _, _)
ReadUnquoted(ln, i, val) ==
  IF i <= Len(ln) /\ ln[i] # Comma
    THEN ReadUnquoted(ln, i + 1, Append(val, ln[i]))
    ELSE [val |-> val, i |-> i]

\* skips the comma that ends a field
SkipComma(ln, i) == IF i <= Len(ln) /\ ln[i] = Comma THEN i + 1 ELSE i

RECURSIVE ParseFrom_dropTrailing(_, _, _)
ParseFrom_dropTrailing(ln, i, out) ==
  IF i > Len(ln)
    THEN IF Len(out) = 0 THEN Append(out, <<>>) ELSE out
  ELSE IF ln[i] = Quote
    THEN LET q == ReadQuoted(ln, i + 1, <<>>)
         IN ParseFrom_dropTrailing(ln, SkipComma(ln, q.i), Append(out, Trim(q.val)))
  ELSE LET u == ReadUnquoted(ln, i, <<>>)
       IN ParseFrom_dropTrailing(ln, SkipComma(ln, u.i),
                                 Append(out, StripQuotes(Trim(u.val))))

\* parseCSVLine, outer loop from position i with the fields read so far
RECURSIVE ParseFrom(_, _, _)
ParseFrom(ln, i, out) ==
  IF i > Len(ln)
    THEN IF Len(out) = 0 \/ ln[Len(ln)] = Comma THEN Append(out, <<>>) ELSE out
  ELSE IF ln[i] = Quote
    THEN LET q == ReadQuoted(ln, i + 1, <<>>)
         IN ParseFrom(ln, SkipComma(ln, q.i), Append(out, Trim(q.val)))
  ELSE LET u == ReadUnquoted(ln, i, <<>>)
       IN ParseFrom(ln, SkipComma(ln, u.i), Append(out, StripQuotes(Trim(u.val))))

parseCSVLine(ln) == ParseFrom(ln, 1, <<>>)

(***************************************************************************)
(* The writer of a published CSV line (input format B): comma delimiter,   *)
(* double-quote quoting, a quote inside a quoted field is doubled.  A      *)
(* field that contains a comma or a quote is always quoted; any other      *)
(* field may be written bare or quoted.                                    *)
(***************************************************************************)
RECURSIVE EscapeQuotes(_)
EscapeQuotes(s) ==
  IF s = <<>> THEN <<>>
  ELSE (IF s[1] = Quote THEN <<Quote, Quote>> ELSE <<s[1]>>) \o EscapeQuotes(Tail(s))

Contains(s, c) == \E i \in 1..Len(s) : s[i] = c

MustQuote(f) == Contains(f, Comma) \/ Contains(f, Quote)

SerializeField(f, q) == IF q THEN <<Quote>> \o EscapeQuotes(f) \o <<Quote>> ELSE f

RECURSIVE SerializeLine(_, _)
SerializeLine(fs, qs) ==
  IF Len(fs) = 1 THEN SerializeField(fs[1], qs[1])
  ELSE SerializeField(fs[1], qs[1]) \o <<Comma>> \o SerializeLine(Tail(fs), Tail(qs))

FieldChars == {"a", " ", Comma, Quote}

RECURSIVE StringsUpTo(_, _)
StringsUpTo(chars, n) ==
  IF n = 0 THEN {<<>>}
  ELSE LET shorter == StringsUpTo(chars, n - 1)
       IN shorter \cup {Append(w, c) : w \in shorter, c \in chars}

FieldValues == StringsUpTo(FieldChars, MaxFieldLen)

FieldSeqs == UNION {[1..n -> FieldValues] : n \in 1..MaxFields}

ParserInit ==
  /\ fields \in FieldSeqs
  /\ quoted = <<>>
  /\ line = <<>>
  /\ parsed = <<>>
  /\ pstep = "input"

\* the sheet is published as CSV: every field is written, quoted where needed
WriteLine ==
  /\ pstep = "input"
  /\ \E qs \in [1..Len(fields) -> BOOLEAN] :
       /\ \A i \in 1..Len(fields) : MustQuote(fields[i]) => qs[i]
       /\ line' = SerializeLine(fields, qs)
       /\ quoted' = qs
  /\ pstep' = "line"
  /\ UNCHANGED <<fields, parsed, loaderVars, entityVars, calcVars>>

\* parseCSVLine(line)
ParseLine ==
  /\ pstep = "line"
  /\ parsed' = parseCSVLine(line)
  /\ pstep' = "parsed"
  /\ UNCHANGED <<fields, quoted, line, loaderVars, entityVars, calcVars>>

ParserNext == WriteLine \/ ParseLine

InitParser == ParserInit /\ LoaderIdle /\ EntityIdle /\ CalcIdle

SpecParser == InitParser /\ [][ParserNext]_vars

\* C10 (as stated): parsing a serialised line returns exactly the original
\* field values in the original order.
C10_RoundTripExact == pstep = "parsed" => parsed = fields

\* C10 (amended): parsing a serialised line returns, in the original order,
\* each original field value with its leading and trailing whitespace
\* removed; commas and quote characters inside the values are preserved.
C10_RoundTripTrimmed ==
  pstep = "parsed" =>
    /\ Len(parsed) = Len(fields)
    /\ \A i \in 1..Len(fields) : parsed[i] = Trim(fields[i])

\* two values, with a comma and a quote character, came back unchanged
C10_Witness ==
  /\ pstep = "parsed"
  /\ Len(fields) = 2
  /\ Contains(fields[1], Comma)
  /\ Contains(fields[2], Quote)
  /\ parsed = fields

\* position in `line' of the first character of the i-th serialised field
RECURSIVE FieldStart(_)
FieldStart(i) ==
  IF i = 1 THEN 1
  ELSE FieldStart(i - 1) + Len(SerializeField(fields[i - 1], quoted[i - 1])) + 1

\* C11: read from just after its opening quote, a quoted field's value is
\* the written value with every comma kept and every doubled quote turned
\* into one quote character, and the read stops right after the closing,
\* undoubled quote; the parsed field is that value (trimmed).
C11_QuotedFieldEndsAtClosingQuote ==
  pstep = "parsed" =>
    \A i \in 1..Len(fields) :
      quoted[i] =>
        LET r == ReadQuoted(line, FieldStart(i) + 1, <<>>)
        IN /\ r.val = fields[i]
           /\ r.i = FieldStart(i) + Len(EscapeQuotes(fields[i])) + 2
           /\ i <= Len(parsed)
           /\ parsed[i] = Trim(fields[i])

\* a quoted field holding a comma and a quote character, followed by
\* another field, was parsed
C11_Witness ==
  /\ pstep = "parsed"
  /\ Len(fields) = 2
  /\ quoted[1]
  /\ fields[1] = <<Comma, Quote>>
  /\ line[FieldStart(2) - 1] = Comma
  /\ parsed[1] = <<Comma, Quote>>

\* number of commas of ln[i..] that are outside quotes; inq tells whether
\* position i is inside quotes (a doubled quote closes and reopens)
RECURSIVE DelimitersOutsideQuotes(_, _, _)
DelimitersOutsideQuotes(ln, i, inq) ==
  IF i > Len(ln) THEN 0
  ELSE IF ln[i] = Quote THEN DelimitersOutsideQuotes(ln, i + 1, ~inq)
  ELSE (IF ln[i] = Comma /\ ~inq THEN 1 ELSE 0)
         + DelimitersOutsideQuotes(ln, i + 1, inq)

\* C13: the number of fields parsed from a line is one more than the
\* number of delimiters outside quotes, and a line that ends with the
\* delimiter yields a final empty-string field.
C13_TrailingEmptyFieldKept ==
  pstep = "parsed" =>
    /\ Len(parsed) = DelimitersOutsideQuotes(line, 1, FALSE) + 1
    /\ (line # <<>> /\ line[Len(line)] = Comma) => parsed[Len(parsed)] = <<>>

\* the line "a," was parsed into the two fields "a" and ""
C13_Witness ==
  /\ pstep = "parsed"
  /\ line = <<"a", Comma>>
  /\ parsed = <<<<"a">>, <<>>>>

(***************************************************************************)
(* Typed entities: normalizeHeader, cell, num and the mapping of raw       *)
(* records to SalesKPIs, PipelineDeal and ForecastPoint.  The other        *)
(* tables are mapped with the same String(... ?? '') and num(... || ...)   *)
(* expressions as ForecastPoint.                                           *)
(***************************************************************************)
\* longest cell of a raw record and most columns it has
MaxCellLen == 2

MaxColumns == 1

\* longest cell text given to a coercer
MaxRawLen == 5

\* most digits after the decimal point of a cell text
MaxFraction == 2

\* JavaScript values: undefined, a string, a number and NaN.  The number is
\* n * 10^x / Scale; x is 0 but for a number multiplied by 1_000 or
\* 1_000_000.
Undefined == [t |-> "undefined", s |-> <<>>, n |-> 0, x |-> 0]

Str(s) == [t |-> "string", s |-> s, n |-> 0, x |-> 0]

Num(n) == [t |-> "number", s |-> <<>>, n |-> n, x |-> 0]

NaN == [t |-> "NaN", s |-> <<>>, n |-> 0, x |-> 0]

\* a || b
Truthy(v) ==
  \/ v.t = "string" /\ v.s # <<>>
  \/ v.t = "number" /\ v.n # 0

Or(a, b) == IF Truthy(a) THEN a ELSE b

\* a ?? b
Nullish(a, b) == IF a.t = "undefined" THEN b ELSE a

\* String(v) of a string or of undefined
StringOf(v) ==
  IF v.t = "undefined" THEN Str(<<"u", "n", "d", "e", "f", "i", "n", "e", "d">>) ELSE v

\* toLowerCase on the letters of the column names
UpperCase ==
  {"A", "B", "C", "D", "E", "F", "G", "H", "I", "J", "K", "L", "M",
   "N", "O", "P", "Q", "R", "S", "T", "U", "V", "W", "X", "Y", "Z"}

LowerCase ==
  <<"a", "b", "c", "d", "e", "f", "g", "h", "i", "j", "k", "l", "m",
    "n", "o", "p", "q", "r", "s", "t", "u", "v", "w", "x", "y", "z">>

UpperSeq ==
  <<"A", "B", "C", "D", "E", "F", "G", "H", "I", "J", "K", "L", "M",
    "N", "O", "P", "Q", "R", "S", "T", "U", "V", "W", "X", "Y", "Z">>

LowerTable == [c \in UpperCase |-> LowerCase[CHOOSE i \in 1..26 : UpperSeq[i] = c]]

Lower(c) == IF c \in UpperCase THEN LowerTable[c] ELSE c

\* .replace(/[\s_]+/g, '')
KeptInHeader(c) == ~(IsSpace(c) \/ c = "_")

DropSpacesAndUnderscores(s) == SelectSeq(s, KeptInHeader)

normalizeHeader(h) ==
  LET q == StripQuotes(Trim(h))
  IN DropSpacesAndUnderscores([i \in 1..Len(q) |-> Lower(q[i])])

\* row[key]: the cell, or undefined when the record has no such column
Get(row, key) == IF key \in DOMAIN row THEN Str(row[key]) ELSE Undefined

\* cell(row, key) = row[normalizeHeader(key)] ?? row[key] ?? ''
cell(row, key) ==
  Nullish(Nullish(Get(row, normalizeHeader(key)), Get(row, key)), Str(<<>>))

RECURSIVE Pow10(_)
Pow10(k) == IF k = 0 THEN 1 ELSE 10 * Pow10(k - 1)

\* numbers are held in units of 1/Scale: every digit of a cell is kept
Scale == Pow10(MaxFraction)

Digits == {"0", "1", "2", "3", "4", "5", "6", "7", "8", "9"}

DigitVal(c) ==
  CASE c = "0" -> 0 [] c = "1" -> 1 [] c = "2" -> 2 [] c = "3" -> 3 [] c = "4" -> 4
    [] c = "5" -> 5 [] c = "6" -> 6 [] c = "7" -> 7 [] c = "8" -> 8 [] c = "9" -> 9

\* .replace(/[^0-9.-]/g, '')
IsNumericChar(c) == c \in Digits \cup {".", "-"}

StripNonNumeric(s) == SelectSeq(s, IsNumericChar)

RECURSIVE DigitPrefix(_)
DigitPrefix(s) ==
  IF s # <<>> /\ s[1] \in Digits THEN <<s[1]>> \o DigitPrefix(Tail(s)) ELSE <<>>

RECURSIVE IntOf(_)
IntOf(ds) ==
  IF ds = <<>> THEN 0
  ELSE 10 * IntOf(SubSeq(ds, 1, Len(ds) - 1)) + DigitVal(ds[Len(ds)])

\* parseFloat of a string of digits, points and minus signs: the longest
\* prefix  -? digits* (. digits*)?  with at least one digit, else NaN
parseFloat(s) ==
  LET neg == s # <<>> /\ s[1] = "-"
      body == IF neg THEN Tail(s) ELSE s
      ip == DigitPrefix(body)
      rest == SubSeq(body, Len(ip) + 1, Len(body))
      fp == IF rest # <<>> /\ rest[1] = "." THEN DigitPrefix(Tail(rest)) ELSE <<>>
      mag == IntOf(ip) * Scale + IntOf(fp) * Pow10(MaxFraction - Len(fp))
  IN IF ip = <<>> /\ fp = <<>> THEN NaN
     ELSE Num(IF neg THEN 0 - mag ELSE mag)

num_noGuard(v) == parseFloat(StripNonNumeric(StringOf(v).s))

\* num(v): parseFloat of the stripped string, 0 when that is NaN
num(v) ==
  LET n == parseFloat(StripNonNumeric(StringOf(v).s))
  IN IF n.t = "NaN" THEN Num(0) ELSE n

\* the column names the mappers ask for, as character sequences
Key ==
  [forecastARR |-> <<"f", "o", "r", "e", "c", "a", "s", "t", "A", "R", "R">>,
   pipelineValue |-> <<"p", "i", "p", "e", "l", "i", "n", "e", "V", "a", "l", "u", "e">>,
   closedWon |-> <<"c", "l", "o", "s", "e", "d", "W", "o", "n">>,
   winRate |-> <<"w", "i", "n", "R", "a", "t", "e">>,
   forecastARRDelta |-> <<"f", "o", "r", "e", "c", "a", "s", "t", "A", "R", "R", "D", "e", "l", "t", "a">>,
   pipelineValueDelta |-> <<"p", "i", "p", "e", "l", "i", "n", "e", "V", "a", "l", "u", "e", "D", "e", "l", "t", "a">>,
   closedWonDelta |-> <<"c", "l", "o", "s", "e", "d", "W", "o", "n", "D", "e", "l", "t", "a">>,
   winRateDelta |-> <<"w", "i", "n", "R", "a", "t", "e", "D", "e", "l", "t", "a">>,
   annualARRTarget |-> <<"a", "n", "n", "u", "a", "l", "A", "R", "R", "T", "a", "r", "g", "e", "t">>,
   annualACVTarget |-> <<"a", "n", "n", "u", "a", "l", "A", "C", "V", "T", "a", "r", "g", "e", "t">>,
   annualInYearRevenueTarget |-> <<"a", "n", "n", "u", "a", "l", "I", "n", "Y", "e", "a", "r", "R", "e", "v", "e", "n", "u", "e", "T", "a", "r", "g", "e", "t">>,
   annualClientWinsTarget |-> <<"a", "n", "n", "u", "a", "l", "C", "l", "i", "e", "n", "t", "W", "i", "n", "s", "T", "a", "r", "g", "e", "t">>,
   id |-> <<"i", "d">>,
   name |-> <<"n", "a", "m", "e">>,
   acv |-> <<"a", "c", "v">>,
   closeDate |-> <<"c", "l", "o", "s", "e", "D", "a", "t", "e">>,
   stage |-> <<"s", "t", "a", "g", "e">>,
   segment |-> <<"s", "e", "g", "m", "e", "n", "t">>,
   month |-> <<"m", "o", "n", "t", "h">>,
   forecast |-> <<"f", "o", "r", "e", "c", "a", "s", "t">>,
   target |-> <<"t", "a", "r", "g", "e", "t">>]

\* salesKPIs: the first row of the SalesKPIs sheet
mapSalesKPIs(r) ==
  [forecastARR |-> num(cell(r, Key.forecastARR)),
   pipelineValue |-> num(cell(r, Key.pipelineValue)),
   closedWon |-> num(cell(r, Key.closedWon)),
   winRate |-> num(cell(r, Key.winRate)),
   forecastARRDelta |-> IF Truthy(cell(r, Key.forecastARRDelta)) THEN num(cell(r, Key.forecastARRDelta)) ELSE Undefined,
   pipelineValueDelta |-> IF Truthy(cell(r, Key.pipelineValueDelta)) THEN num(cell(r, Key.pipelineValueDelta)) ELSE Undefined,
   closedWonDelta |-> IF Truthy(cell(r, Key.closedWonDelta)) THEN num(cell(r, Key.closedWonDelta)) ELSE Undefined,
   winRateDelta |-> IF Truthy(cell(r, Key.winRateDelta)) THEN num(cell(r, Key.winRateDelta)) ELSE Undefined,
   annualARRTarget |-> LET x == num(cell(r, Key.annualARRTarget)) IN IF x.n > 0 THEN x ELSE Undefined,
   annualACVTarget |-> LET x == num(cell(r, Key.annualACVTarget)) IN IF x.n > 0 THEN x ELSE Undefined,
   annualInYearRevenueTarget |-> LET x == num(cell(r, Key.annualInYearRevenueTarget)) IN IF x.n > 0 THEN x ELSE Undefined,
   annualClientWinsTarget |-> LET x == num(cell(r, Key.annualClientWinsTarget)) IN IF x.n > 0 THEN x ELSE Undefined]

\* pipelineDeal: one row of the PipelineDeal sheet
mapPipelineDeal(r) ==
  [id |-> StringOf(Nullish(Or(cell(r, Key.id), Get(r, Key.id)), Str(<<>>))),
   name |-> StringOf(Nullish(Or(cell(r, Key.name), Get(r, Key.name)), Str(<<>>))),
   acv |-> num(Or(cell(r, Key.acv), Get(r, Key.acv))),
   closeDate |-> StringOf(Nullish(Or(cell(r, Key.closeDate), Get(r, Key.closeDate)), Str(<<>>))),
   stage |-> IF Truthy(Or(cell(r, Key.stage), Get(r, Key.stage)))
              THEN StringOf(Or(cell(r, Key.stage), Get(r, Key.stage))) ELSE Undefined,
   segment |-> StringOf(Nullish(Or(cell(r, Key.segment), Get(r, Key.segment)), Str(<<>>)))]

\* forecastPoint: one row of the ForecastPoint sheet
mapForecastPoint(r) ==
  [month |-> StringOf(Nullish(Or(cell(r, Key.month), Get(r, Key.month)), Str(<<>>))),
   forecast |-> num(Or(cell(r, Key.forecast), Get(r, Key.forecast))),
   target |-> num(Or(cell(r, Key.target), Get(r, Key.target)))]

FieldsOf(k) ==
  CASE k = "SalesKPIs" ->
         {"forecastARR", "pipelineValue", "closedWon", "winRate",
          "forecastARRDelta", "pipelineValueDelta", "closedWonDelta", "winRateDelta",
          "annualARRTarget", "annualACVTarget", "annualInYearRevenueTarget", "annualClientWinsTarget"}
    [] k = "PipelineDeal" -> {"id", "name", "acv", "closeDate",
          "stage", "segment"}
    [] k = "ForecastPoint" -> {"month", "forecast", "target"}

Kinds == {"SalesKPIs", "PipelineDeal", "ForecastPoint"}

\* parseCSV keys every record by the normalized headers of the sheet
ColumnsOf(k) == {normalizeHeader(Key[f]) : f \in FieldsOf(k)}

\* fields the entity types declare optional (`?:')
OptionalFields ==
  {"forecastARRDelta",
   "pipelineValueDelta",
   "closedWonDelta",
   "winRateDelta",
   "annualARRTarget",
   "annualACVTarget",
   "annualInYearRevenueTarget",
   "annualClientWinsTarget",
   "stage"}

NumericFields ==
  {"forecastARR",
   "pipelineValue",
   "closedWon",
   "winRate",
   "forecastARRDelta",
   "pipelineValueDelta",
   "closedWonDelta",
   "winRateDelta",
   "annualARRTarget",
   "annualACVTarget",
   "annualInYearRevenueTarget",
   "annualClientWinsTarget",
   "acv",
   "forecast",
   "target"}

CellChars == {"1", ".", "-", "x"}

CellValues == StringsUpTo(CellChars, MaxCellLen)

RawRows(k) ==
  UNION {[cols -> CellValues] :
           cols \in {c \in SUBSET ColumnsOf(k) : Cardinality(c) <= MaxColumns}}

EntityInit ==
  /\ kind \in Kinds
  /\ rawRow \in RawRows(kind)
  /\ entity = <<>>
  /\ estep = "raw"

MapSalesKPIs ==
  /\ estep = "raw" /\ kind = "SalesKPIs"
  /\ entity' = mapSalesKPIs(rawRow)
  /\ estep' = "typed"
  /\ UNCHANGED <<kind, rawRow, loaderVars, parserVars, calcVars>>

MapPipelineDeal ==
  /\ estep = "raw" /\ kind = "PipelineDeal"
  /\ entity' = mapPipelineDeal(rawRow)
  /\ estep' = "typed"
  /\ UNCHANGED <<kind, rawRow, loaderVars, parserVars, calcVars>>

MapForecastPoint ==
  /\ estep = "raw" /\ kind = "ForecastPoint"
  /\ entity' = mapForecastPoint(rawRow)
  /\ estep' = "typed"
  /\ UNCHANGED <<kind, rawRow, loaderVars, parserVars, calcVars>>

EntityNext == MapSalesKPIs \/ MapPipelineDeal \/ MapForecastPoint

InitEntity == EntityInit /\ LoaderIdle /\ ParserIdle /\ CalcIdle

SpecEntity == InitEntity /\ [][EntityNext]_vars

MaxHeaderLen == 3

MaxLineLen == 2

MaxRows == 1

Newline == "\n"

\* the byte-order mark, one character of the text
Bom == "BOM"

\* .replace(/^\uFEFF/, '')
StripBOM(s) == IF s # <<>> /\ s[1] = Bom THEN Tail(s) ELSE s

DropCR(s) == IF s # <<>> /\ s[Len(s)] = "\r" THEN SubSeq(s, 1, Len(s) - 1) ELSE s

\* .split(/\r?\n/): cur is the piece read so far
RECURSIVE SplitLines(_, _)
SplitLines(text, cur) ==
  IF text = <<>> THEN <<cur>>
  ELSE IF text[1] = Newline THEN <<DropCR(cur)>> \o SplitLines(Tail(text), <<>>)
  ELSE SplitLines(Tail(text), Append(cur, text[1]))

NonEmpty(l) == Len(l) > 0

\* the `lines' of parseCSV
LinesOf(text) == SelectSeq(SplitLines(StripBOM(Trim(text)), <<>>), NonEmpty)

\* normalizeHeader(h.replace(/^\uFEFF/, '')) || h
HeaderKey(h) ==
  LET n == normalizeHeader(StripBOM(h))
  IN IF n # <<>> THEN n ELSE h

HeadersOf(ln) ==
  LET rawHeaders == parseCSVLine(ln)
  IN [j \in 1..Len(rawHeaders) |-> HeaderKey(rawHeaders[j])]

RowOf_ragged(headers, values) ==
  LET width == IF Len(values) < Len(headers) THEN Len(values) ELSE Len(headers)
  IN [h \in {headers[j] : j \in 1..width} |->
        values[CHOOSE j \in 1..width :
                 headers[j] = h /\ \A k \in (j + 1)..width : headers[k] # h]]

\* one record: values padded or truncated to the header width, then
\* row[h] = normalizedValues[j] for every header in turn (a later column
\* with the same key overwrites an earlier one)
RowOf(headers, values) ==
  LET normalizedValues ==
        [j \in 1..Len(headers) |->
           StripQuotes(Trim(IF j <= Len(values) THEN values[j] ELSE <<>>))]
  IN [h \in {headers[j] : j \in 1..Len(headers)} |->
        normalizedValues[CHOOSE j \in 1..Len(headers) :
                           headers[j] = h /\ \A k \in (j + 1)..Len(headers) : headers[k] # h]]

parseCSV(text) ==
  LET lines == LinesOf(text)
  IN IF Len(lines) < 2 THEN <<>>
     ELSE LET headers == HeadersOf(lines[1])
          IN [i \in 1..(Len(lines) - 1) |-> RowOf(headers, parseCSVLine(lines[i + 1]))]

CsvChars == {"a", "_", Comma}

CsvLines == StringsUpTo(CsvChars, MaxLineLen)

RECURSIVE JoinLines(_)
JoinLines(ls) ==
  IF Len(ls) = 1 THEN ls[1] ELSE ls[1] \o <<Newline>> \o JoinLines(Tail(ls))

CsvHeaders == StringsUpTo(CsvChars, MaxHeaderLen)

\* a header line followed by up to MaxRows further lines
CsvTexts ==
  {JoinLines(<<h>> \o ls) :
     h \in CsvHeaders, ls \in UNION {[1..n -> CsvLines] : n \in 0..MaxRows}}

CsvInit ==
  /\ csv \in CsvTexts
  /\ csvRows = <<>>
  /\ cstep = "text"

\* parseCSV(csv)
ParseCSV ==
  /\ cstep = "text"
  /\ csvRows' = parseCSV(csv)
  /\ cstep' = "parsed"
  /\ UNCHANGED <<csv, loaderVars, parserVars, entityVars, coerceVars, aggVars,
               waterfallVars, viewVars>>

CsvNext == ParseCSV

InitCsv == CsvInit /\ LoaderIdle /\ ParserIdle /\ EntityIdle /\ CoerceIdle /\ AggIdle
           /\ WaterfallIdle /\ ViewIdle

SpecCsv == InitCsv /\ [][CsvNext]_vars

\* C12: every line after the header line gives one record; the record has a
\* string under the key of every header column and under no other key; a
\* column the data line has no field for holds the empty string, and
\* fields beyond the header width are in no record.
C12_PadOrTruncate ==
  cstep = "parsed" /\ Len(LinesOf(csv)) >= 2 =>
    LET lines == LinesOf(csv)
        headers == HeadersOf(lines[1])
    IN /\ Len(csvRows) = Len(lines) - 1
       /\ \A i \in 1..Len(csvRows) :
            LET values == parseCSVLine(lines[i + 1])
            IN /\ DOMAIN csvRows[i] = {headers[j] : j \in 1..Len(headers)}
               /\ \A j \in 1..Len(headers) :
                    (\A k \in (j + 1)..Len(headers) : headers[k] # headers[j]) =>
                      csvRows[i][headers[j]] =
                        (IF j <= Len(values) THEN values[j] ELSE <<>>)

\* a two-column sheet whose data line has one field was parsed: the second
\* column of the record is the empty string
C12_Witness ==
  /\ cstep = "parsed"
  /\ Len(csvRows) = 1
  /\ csv = <<"a", Comma, "_", Newline, "a">>
  /\ csvRows[1] = (<<"a">> :> <<"a">>) @@ (<<"_">> :> <<>>)

\* C14: no key of a record is the empty string.
C14_NoEmptyKey ==
  cstep = "parsed" => \A i \in 1..Len(csvRows) : <<>> \notin DOMAIN csvRows[i]

(***************************************************************************)
(* The number coercers: num of the loader and parseSheetNumber of the      *)
(* quarter tab.                                                            *)
(***************************************************************************)
\* base * 1_000 (k = 3) and base * 1_000_000 (k = 6)
TimesPow10(v, k) == IF v.n = 0 THEN v ELSE [v EXCEPT !.x = k]

\* equality of two numbers n * 10^x / Scale
NumEq(a, b) ==
  /\ a.t = "number" /\ b.t = "number"
  /\ IF a.x = b.x THEN a.n = b.n
     ELSE IF a.x > b.x
       THEN b.n % Pow10(a.x - b.x) = 0 /\ b.n \div Pow10(a.x - b.x) = a.n
     ELSE a.n % Pow10(b.x - a.x) = 0 /\ a.n \div Pow10(b.x - a.x) = b.n

NotComma(c) == c # Comma

\* .replace(/,/g, '')
RemoveCommas(s) == SelectSeq(s, NotComma)

\* parseSheetNumber(raw): /^(-?\d+(?:\.\d+)?)([kKmM])?$/ on the trimmed text
\* without commas, else parseFloat of its digits, points and minus signs
parseSheetNumber(v) ==
  LET s == RemoveCommas(Trim(v))
      neg == s # <<>> /\ s[1] = "-"
      body == IF neg THEN Tail(s) ELSE s
      ip == DigitPrefix(body)
      rest == SubSeq(body, Len(ip) + 1, Len(body))
      fp == IF rest # <<>> /\ rest[1] = "." THEN DigitPrefix(Tail(rest)) ELSE <<>>
      suffix == IF fp # <<>> THEN SubSeq(rest, Len(fp) + 2, Len(rest)) ELSE rest
      m == /\ ip # <<>>
           /\ \/ suffix = <<>>
              \/ Len(suffix) = 1 /\ suffix[1] \in {"k", "K", "m", "M"}
      base == parseFloat((IF neg THEN <<"-">> ELSE <<>>) \o ip
                           \o (IF fp # <<>> THEN <<".">> \o fp ELSE <<>>))
      n == parseFloat(StripNonNumeric(s))
  IN IF m
       THEN IF suffix # <<>> /\ Lower(suffix[1]) = "k" THEN TimesPow10(base, 3)
            ELSE IF suffix # <<>> /\ Lower(suffix[1]) = "m" THEN TimesPow10(base, 6)
            ELSE base
     ELSE IF n.t = "NaN" THEN Num(0) ELSE n

CoerceChars == {"1", ".", "-", Comma, "$", "k", "m"}

\* the digits that follow the first decimal point
FractionOf(s) ==
  IF Contains(s, ".")
    THEN LET p == CHOOSE i \in 1..Len(s) : s[i] = "." /\ \A j \in 1..(i - 1) : s[j] # "."
         IN SelectSeq(SubSeq(s, p + 1, Len(s)), LAMBDA c : c \in Digits)
    ELSE <<>>

RawValues == {s \in StringsUpTo(CoerceChars, MaxRawLen) : Len(FractionOf(s)) <= MaxFraction}

CoerceInit ==
  /\ raw \in RawValues
  /\ coercer = ""
  /\ coerced = <<>>
  /\ nstep = "raw"

\* a typed entity's numeric field: num(cell)
CoerceNum ==
  /\ nstep = "raw"
  /\ coercer' = "num"
  /\ coerced' = num(Str(raw))
  /\ nstep' = "coerced"
  /\ UNCHANGED <<raw, loaderVars, parserVars, entityVars, csvVars, aggVars,
               waterfallVars, viewVars>>

\* a month-details row's numeric field: parseSheetNumber(cell)
CoerceSheetNumber ==
  /\ nstep = "raw"
  /\ coercer' = "parseSheetNumber"
  /\ coerced' = parseSheetNumber(raw)
  /\ nstep' = "coerced"
  /\ UNCHANGED <<raw, loaderVars, parserVars, entityVars, csvVars, aggVars,
               waterfallVars, viewVars>>

CoerceNext == CoerceNum \/ CoerceSheetNumber

InitCoerce == CoerceInit /\ LoaderIdle /\ ParserIdle /\ EntityIdle /\ CsvIdle /\ AggIdle
              /\ WaterfallIdle /\ ViewIdle

SpecCoerce == InitCoerce /\ [][CoerceNext]_vars

\* the characters the claim lets take part: digits, decimal points and a
\* minus sign that no digit, point or minus sign precedes
RECURSIVE SignificantChars(_, _)
SignificantChars(s, leading) ==
  IF s = <<>> THEN <<>>
  ELSE IF s[1] \in Digits \cup {"."} THEN <<s[1]>> \o SignificantChars(Tail(s), FALSE)
  ELSE IF s[1] = "-" /\ leading THEN <<s[1]>> \o SignificantChars(Tail(s), FALSE)
  ELSE SignificantChars(Tail(s), leading)

\* C15: num returns a number, never NaN, for every text; zero for every
\* text without a digit; and the number is decided by the text's digits,
\* decimal points and leading minus sign alone (removing every other
\* character does not change it).
C15_OnlyLeadingMinusCounts ==
  nstep = "coerced" /\ coercer = "num" =>
    /\ coerced.t = "number"
    /\ (\A i \in 1..Len(raw) : raw[i] \notin Digits) => coerced = Num(0)
    /\ coerced = num(Str(SignificantChars(raw, TRUE)))

AllDigits(s) == \A i \in 1..Len(s) : s[i] \in Digits

\* digits in groups of three separated by commas, after a first group of one
\* to three digits
GroupedDigits(s) ==
  /\ Len(s) >= 5
  /\ Len(s) % 4 # 0
  /\ \A i \in 1..Len(s) :
       IF (Len(s) - i + 1) % 4 = 0 THEN s[i] = Comma ELSE s[i] \in Digits

\* the parts of a numeric-looking text:  -? $? digits (. digits)? [km]?
NumberParts(s) ==
  LET neg == s # <<>> /\ s[1] = "-"
      s1 == IF neg THEN Tail(s) ELSE s
      s2 == IF s1 # <<>> /\ s1[1] = "$" THEN Tail(s1) ELSE s1
      suffix == IF s2 # <<>> /\ s2[Len(s2)] \in {"k", "m"} THEN s2[Len(s2)] ELSE ""
      s3 == IF suffix # "" THEN SubSeq(s2, 1, Len(s2) - 1) ELSE s2
      p == IF Contains(s3, ".")
             THEN CHOOSE i \in 1..Len(s3) : s3[i] = "." /\ \A j \in 1..(i - 1) : s3[j] # "."
             ELSE 0
  IN [neg |-> neg, suffix |-> suffix, point |-> p # 0,
      whole |-> IF p = 0 THEN s3 ELSE SubSeq(s3, 1, p - 1),
      fraction |-> IF p = 0 THEN <<>> ELSE SubSeq(s3, p + 1, Len(s3))]

NumericLooking(s) ==
  LET q == NumberParts(s)
  IN /\ q.whole # <<>>
     /\ AllDigits(q.whole) \/ GroupedDigits(q.whole)
     /\ q.point => q.fraction # <<>> /\ AllDigits(q.fraction)

\* the number a numeric-looking text denotes
MathValue(s) ==
  LET q == NumberParts(s)
      mag == IntOf(RemoveCommas(q.whole)) * Scale
               + IntOf(q.fraction) * Pow10(MaxFraction - Len(q.fraction))
      v == Num(IF q.neg THEN 0 - mag ELSE mag)
  IN IF q.suffix = "k" THEN TimesPow10(v, 3)
     ELSE IF q.suffix = "m" THEN TimesPow10(v, 6)
     ELSE v

\* C16: the numeric field produced from a numeric-looking cell with a
\* currency symbol, thousands separators or one compact suffix is the number
\* the cell denotes.
C16_CompactSuffixEquivalent ==
  nstep = "coerced" /\ NumericLooking(raw) => NumEq(coerced, MathValue(raw))

(***************************************************************************)
(* Aggregators: aggregateVolumeByDate, aggregateVolumeByClient and         *)
(* getForecastLine.  A Map is read back in insertion order.                *)
(***************************************************************************)
\* most records of an aggregated sequence
MaxRecords == 2

\* the keys of a record sequence in order of first occurrence
RECURSIVE KeysInOrder(_, _)
KeysInOrder(keys, seen) ==
  IF keys = <<>> THEN <<>>
  ELSE IF keys[1] \in seen THEN KeysInOrder(Tail(keys), seen)
  ELSE <<keys[1]>> \o KeysInOrder(Tail(keys), seen \cup {keys[1]})

RECURSIVE SumOf(_, _)
SumOf(recs, f) == IF recs = <<>> THEN 0 ELSE recs[1][f] + SumOf(Tail(recs), f)

\* a.date.localeCompare(b.date) on the ISO dates of the rows
DateRank == [d \in {"2025-01-01", "2025-02-01"} |-> IF d = "2025-01-01" THEN 1 ELSE 2]

RECURSIVE SortByDate(_)
SortByDate(bs) ==
  IF bs = <<>> THEN <<>>
  ELSE LET i == CHOOSE i \in 1..Len(bs) :
                  \A j \in 1..Len(bs) : DateRank[bs[i].key] <= DateRank[bs[j].key]
       IN <<bs[i]>> \o SortByDate([j \in 1..(Len(bs) - 1) |-> IF j < i THEN bs[j] ELSE bs[j + 1]])

aggregateVolumeByDate(d) ==
  LET counted == SelectSeq(d, LAMBDA row : row.transactionDate # "" /\ row.totalVolume # 0)
      dates == KeysInOrder([i \in 1..Len(counted) |-> counted[i].transactionDate], {})
  IN SortByDate([k \in 1..Len(dates) |->
       [key |-> dates[k],
        volume |-> SumOf(SelectSeq(counted, LAMBDA row : row.transactionDate = dates[k]),
                         "totalVolume")]])

\* (row.client ?? '').trim(), '(Unknown)' when that is empty
ClientOf(row) ==
  IF Trim(row.client) # <<>> THEN Trim(row.client)
  ELSE <<"(", "U", "n", "k", "n", "o", "w", "n", ")">>

aggregateVolumeByClient(d) ==
  LET clients == KeysInOrder([i \in 1..Len(d) |-> ClientOf(d[i])], {})
  IN [k \in 1..Len(clients) |->
       [key |-> clients[k],
        volume |-> SumOf(SelectSeq(d, LAMBDA row : ClientOf(row) = clients[k]),
                         "totalVolume")]]

\* getForecastLine(selectedSegments) with googleData loaded
getForecastLine(bySeg, points, segs) ==
  IF segs # {}
    THEN LET filtered == SelectSeq(bySeg, LAMBDA r : r.segment \in segs)
             months == KeysInOrder([i \in 1..Len(filtered) |-> filtered[i].month], {})
         IN [k \in 1..Len(months) |->
              LET ofMonth == SelectSeq(filtered, LAMBDA r : r.month = months[k])
              IN [month |-> months[k],
                  forecast |-> SumOf(ofMonth, "forecast"),
                  target |-> SumOf(ofMonth, "target")]]
    ELSE points

SeqsUpTo(S, n) == UNION {[1..k -> S] : k \in 0..n}

VolumeRows ==
  [client : {<<>>, <<"A">>, <<"A", " ">>, <<"B">>},
   transactionDate : {"", "2025-01-01", "2025-02-01"},
   totalVolume : {0, 1, 2}]

Segments == {"Enterprise", "SMB"}

SegmentPoints == [month : {"Jan", "Feb"}, segment : Segments, forecast : {1, 2}, target : {1}]

\* the ForecastPoint sheet holds one row per month
MonthPoints == [month : {"Jan"}, forecast : {1, 3}, target : {1, 2}]

AggInit ==
  /\ \/ /\ data \in SeqsUpTo(VolumeRows, MaxRecords)
        /\ forecastBySeg = <<>>
        /\ forecastPoint = <<>>
        /\ selectedSegments = {}
     \/ /\ data = <<>>
        /\ forecastBySeg \in SeqsUpTo(SegmentPoints, MaxRecords)
        /\ forecastPoint \in SeqsUpTo(MonthPoints, 1)
        /\ selectedSegments \in SUBSET Segments
  /\ buckets = <<>>
  /\ astep = "input"

AggregateVolumeByDate ==
  /\ astep = "input"
  /\ buckets' = aggregateVolumeByDate(data)
  /\ astep' = "byDate"
  /\ UNCHANGED <<data, forecastBySeg, forecastPoint, selectedSegments,
                 loaderVars, parserVars, entityVars, csvVars, coerceVars,
                 waterfallVars, viewVars>>

AggregateVolumeByClient ==
  /\ astep = "input"
  /\ buckets' = aggregateVolumeByClient(data)
  /\ astep' = "byClient"
  /\ UNCHANGED <<data, forecastBySeg, forecastPoint, selectedSegments,
                 loaderVars, parserVars, entityVars, csvVars, coerceVars,
                 waterfallVars, viewVars>>

GetForecastLine ==
  /\ astep = "input"
  /\ buckets' = getForecastLine(forecastBySeg, forecastPoint, selectedSegments)
  /\ astep' = "forecastLine"
  /\ UNCHANGED <<data, forecastBySeg, forecastPoint, selectedSegments,
                 loaderVars, parserVars, entityVars, csvVars, coerceVars,
                 waterfallVars, viewVars>>

AggNext == AggregateVolumeByDate \/ AggregateVolumeByClient \/ GetForecastLine

InitAgg == AggInit /\ LoaderIdle /\ ParserIdle /\ EntityIdle /\ CsvIdle /\ CoerceIdle
           /\ WaterfallIdle /\ ViewIdle

SpecAgg == InitAgg /\ [][AggNext]_vars

\* the records of forecastPointBySegment the selection admits: all of them
\* when nothing is selected
Admitted(bySeg, segs) ==
  IF segs = {} THEN bySeg ELSE SelectSeq(bySeg, LAMBDA r : r.segment \in segs)

\* C17: the bucket totals of every grouping add up to the total of the
\* value over the records the filter admits.
C17_Conservation ==
  /\ astep \in {"byDate", "byClient"} =>
       SumOf(buckets, "volume") = SumOf(data, "totalVolume")
  /\ astep = "forecastLine" =>
       /\ SumOf(buckets, "forecast") = SumOf(Admitted(forecastBySeg, selectedSegments), "forecast")
       /\ SumOf(buckets, "target") = SumOf(Admitted(forecastBySeg, selectedSegments), "target")

(***************************************************************************)
(* The quarter tab's projection waterfall: getQuarterDeals, deals,         *)
(* previousQuarterDeals, carryOver and waterfallData                       *)
(***************************************************************************)
MaxDeals == 2

CLIENT_WIN_MIN_CONFIDENCE == 60

QUARTER_MONTH_NUMS ==
  [q \in {"2026Q1", "2026Q2", "2026Q3", "2026Q4"} |->
     CASE q = "2026Q1" -> <<1, 2, 3>> [] q = "2026Q2" -> <<4, 5, 6>>
       [] q = "2026Q3" -> <<7, 8, 9>> [] q = "2026Q4" -> <<10, 11, 12>>]

QUARTER_MONTH_LABELS ==
  [q \in {"2026Q1", "2026Q2", "2026Q3", "2026Q4"} |->
     CASE q = "2026Q1" -> <<"Jan", "Feb", "Mar">> [] q = "2026Q2" -> <<"Apr", "May", "Jun">>
       [] q = "2026Q3" -> <<"Jul", "Aug", "Sep">> [] q = "2026Q4" -> <<"Oct", "Nov", "Dec">>]

PREVIOUS_QUARTERS ==
  [q \in {"2026Q1", "2026Q2", "2026Q3", "2026Q4"} |->
     CASE q = "2026Q1" -> <<>> [] q = "2026Q2" -> <<"2026Q1">>
       [] q = "2026Q3" -> <<"2026Q1", "2026Q2">>
       [] q = "2026Q4" -> <<"2026Q1", "2026Q2", "2026Q3">>]

\* the characters of the dates below, in the order of their UTF-16 code units
CharOrder == <<" ", "-", "/", "0", "1", "2", "3", "4", "5", "6", "7", "8", "9">>

CodeUnit(c) == CHOOSE i \in 1..Len(CharOrder) : CharOrder[i] = c

\* a < b on strings
RECURSIVE StrLeq_strict(_, _)
StrLeq_strict(a, b) ==
  IF b = <<>> THEN FALSE
  ELSE IF a = <<>> THEN TRUE
  ELSE IF a[1] = b[1] THEN StrLeq_strict(Tail(a), Tail(b))
  ELSE CodeUnit(a[1]) < CodeUnit(b[1])

\* a <= b on strings: the comparison of the code units, left to right
RECURSIVE StrLeq(_, _)
StrLeq(a, b) ==
  IF a = <<>> THEN TRUE
  ELSE IF b = <<>> THEN FALSE
  ELSE IF a[1] = b[1] THEN StrLeq(Tail(a), Tail(b))
  ELSE CodeUnit(a[1]) < CodeUnit(b[1])

startsWith(s, prefix) ==
  Len(s) >= Len(prefix) /\ SubSeq(s, 1, Len(prefix)) = prefix

\* s.slice(from, to) for 0 <= from <= to
slice(s, from, to) ==
  IF from >= Len(s) THEN <<>>
  ELSE SubSeq(s, from + 1, IF to < Len(s) THEN to ELSE Len(s))

\* parseInt(s, 10): leading white space, a sign, then the longest run of
\* digits; <<>> stands for NaN
parseInt(s) ==
  LET t == TrimStart(s)
      neg == t # <<>> /\ t[1] = "-"
      body == IF t # <<>> /\ t[1] \in {"-", "+"} THEN Tail(t) ELSE t
      ds == DigitPrefix(body)
  IN IF ds = <<>> THEN <<>>
     ELSE <<IF neg THEN 0 - IntOf(ds) ELSE IntOf(ds)>>

Includes(seq, x) == \E i \in 1..Len(seq) : seq[i] = x

\* getQuarterDeals(q) over googleData.quarterDeal
getQuarterDeals(q) ==
  SelectSeq(quarterDeal,
            LAMBDA d : LET m == parseInt(slice(d.closeDate, 5, 7))
                       IN m # <<>> /\ Includes(QUARTER_MONTH_NUMS[q], m[1]))

\* the segment filter of deals and previousQuarterDeals (no owner is selected)
BySegments(list) ==
  IF tabSegments # {} THEN SelectSeq(list, LAMBDA d : d.segment \in tabSegments)
  ELSE list

deals == BySegments(getQuarterDeals(quarter))

RECURSIVE ConcatQuarters(_)
ConcatQuarters(prev) ==
  IF prev = <<>> THEN <<>>
  ELSE getQuarterDeals(prev[1]) \o ConcatQuarters(Tail(prev))

previousQuarterDeals == BySegments(ConcatQuarters(PREVIOUS_QUARTERS[quarter]))

getMetricFromDeal(d, metric) ==
  IF metric = "clientWins" THEN 1
  ELSE IF metric = "acv" THEN d.acv
  ELSE d.arrForecast

ConfidenceGated(metric) == metric \in {"clientWins", "acv", "arrTarget"}

\* the value a deal contributes under the metric: the ACV is weighted by the
\* confidence of the quarter close
DealValue(d, metric) ==
  IF metric = "acv" THEN (d.acv * d.confidenceQuarterClose) \div 100
  ELSE getMetricFromDeal(d, metric)

RECURSIVE SumDeals(_, _)
SumDeals(list, metric) ==
  IF list = <<>> THEN 0
  ELSE DealValue(list[1], metric) + SumDeals(Tail(list), metric)

ForMetric(list) ==
  IF ConfidenceGated(projectionMetric)
  THEN SelectSeq(list, LAMBDA d : d.confidenceQuarterClose >= CLIENT_WIN_MIN_CONFIDENCE)
  ELSE list

carryOver ==
  SumDeals(ForMetric(SelectSeq(previousQuarterDeals,
                               LAMBDA d : StrLeq(d.closeDate, asOfDate))),
           projectionMetric)

\* A row of a details view stands for the results of the cell parsers of
\* waterfallData on it: monthIdx is parseMonthIndex of its month-close cell
\* (<<>> = null), signed is isSignedStatus of its status cell, acv and arr are
\* parseCompactNumber of its ACV and FY26 ARR forecast cells, confidence is
\* parseConfidence of its confidence cell.
DetailValue(row, metric) ==
  IF metric = "clientWins" THEN 1
  ELSE IF metric = "acv" THEN row.acv
  ELSE row.arr

\* the rows of a details view the loops of waterfallData do not skip
DetailCounted(row, metric) ==
  /\ ConfidenceGated(metric) => row.confidence >= CLIENT_WIN_MIN_CONFIDENCE
  /\ row.monthIdx # <<>>
  /\ DetailValue(row, metric) # 0

RECURSIVE DetailSum(_, _, _, _)
DetailSum(rows, metric, months, signed) ==
  IF rows = <<>> THEN 0
  ELSE (IF /\ DetailCounted(rows[1], metric)
           /\ rows[1].monthIdx[1] \in months
           /\ rows[1].signed = signed
        THEN DetailValue(rows[1], metric) ELSE 0)
       + DetailSum(Tail(rows), metric, months, signed)

DigitChars == <<"0", "1", "2", "3", "4", "5", "6", "7", "8", "9">>

\* `${year}-${String(monthNum).padStart(2, '0')}` with year = 2026
MonthPrefix(monthNum) ==
  <<"2", "0", "2", "6", "-",
    DigitChars[(monthNum \div 10) + 1], DigitChars[(monthNum % 10) + 1]>>

\* the month sub-total of the deal branch: signed is the part of the deals of
\* the month with closeDate <= asOfDate, forecasted the rest
DealMonthSum(i, signed) ==
  SumDeals(SelectSeq(ForMetric(deals),
                     LAMBDA d : /\ startsWith(d.closeDate, MonthPrefix(QUARTER_MONTH_NUMS[quarter][i]))
                                /\ StrLeq(d.closeDate, asOfDate) = signed),
           projectionMetric)

filtersActive == tabSegments # {}

\* quarterMetricInput, or filteredMetricInput: the sheet's input unless it is
\* null or, with a filter, all zeros
SheetInput ==
  IF metricInput = <<>> THEN <<>>
  ELSE IF /\ filtersActive
          /\ \A i \in 1..3 : metricInput[1].monthSigned[i] = 0
          /\ \A i \in 1..3 : metricInput[1].monthForecasted[i] = 0
          /\ metricInput[1].carryOver = 0
  THEN <<>>
  ELSE metricInput

\* the details view that replaces the deals of the quarter, <<>> when none
DetailsFallback ==
  IF quarter = "2026Q1" THEN q1Rows
  ELSE IF quarter = "2026Q2" THEN q2Rows
  ELSE <<>>

UsesDeals == SheetInput = <<>> /\ DetailsFallback = <<>>

monthSigned ==
  IF SheetInput # <<>> THEN SheetInput[1].monthSigned
  ELSE IF DetailsFallback # <<>>
  THEN [i \in 1..3 |-> DetailSum(DetailsFallback, projectionMetric, {i - 1}, TRUE)]
  ELSE [i \in 1..3 |-> DealMonthSum(i, TRUE)]

monthForecasted ==
  IF SheetInput # <<>> THEN SheetInput[1].monthForecasted
  ELSE IF DetailsFallback # <<>>
  THEN [i \in 1..3 |-> DetailSum(DetailsFallback, projectionMetric, {i - 1}, FALSE)]
  ELSE [i \in 1..3 |-> DealMonthSum(i, FALSE)]

\* q1SignedTotal ?? 0 and q1ForecastedTotal ?? 0
q1SignedTotal == DetailSum(q1Rows, projectionMetric, {0, 1, 2}, TRUE)

q1ForecastedTotal == DetailSum(q1Rows, projectionMetric, {0, 1, 2}, FALSE)

effectiveCarryOverSigned ==
  IF quarter = "2026Q2" THEN q1SignedTotal
  ELSE IF SheetInput # <<>> THEN SheetInput[1].carryOver
  ELSE carryOver

effectiveCarryOverForecasted ==
  IF quarter = "2026Q2" THEN q1ForecastedTotal ELSE 0

WaterfallRow(name, baseline, signed, forecasted) ==
  [name |-> name, baseline |-> baseline, signed |-> signed, forecasted |-> forecasted]

RECURSIVE MonthRows(_, _)
MonthRows(i, running) ==
  IF i > 3 THEN <<>>
  ELSE <<WaterfallRow(QUARTER_MONTH_LABELS[quarter][i], running,
                      monthSigned[i], monthForecasted[i])>>
       \o MonthRows(i + 1, running + monthSigned[i] + monthForecasted[i])

\* waterfallData: carry-over row (after the first quarter), three month rows,
\* Total Projected, and the target row (its target value is not modelled)
waterfallData ==
  LET totalSigned == monthSigned[1] + monthSigned[2] + monthSigned[3]
      totalForecasted == monthForecasted[1] + monthForecasted[2] + monthForecasted[3]
      carry == IF quarter # "2026Q1"
               THEN <<WaterfallRow("Carry-over", 0, effectiveCarryOverSigned,
                                   effectiveCarryOverForecasted)>>
               ELSE <<>>
      running == IF quarter # "2026Q1"
                 THEN effectiveCarryOverSigned + effectiveCarryOverForecasted
                 ELSE 0
  IN carry \o MonthRows(1, running)
     \o <<WaterfallRow("Total Projected", 0,
                       IF quarter = "2026Q2" THEN effectiveCarryOverSigned + totalSigned
                       ELSE totalSigned,
                       IF quarter = "2026Q2" THEN effectiveCarryOverForecasted + totalForecasted
                       ELSE totalForecasted),
          WaterfallRow("Target", 0, 0, 0)>>

\* close dates a sheet can hold: none, a date typed as M/D/YYYY, and ISO dates
NoDate == <<>>

SlashDate == <<"1", "/", "5", "/", "2", "0", "2", "6">>

Feb01 == <<"2", "0", "2", "6", "-", "0", "2", "-", "0", "1">>

Feb15 == <<"2", "0", "2", "6", "-", "0", "2", "-", "1", "5">>

Feb28 == <<"2", "0", "2", "6", "-", "0", "2", "-", "2", "8">>

Apr10 == <<"2", "0", "2", "6", "-", "0", "4", "-", "1", "0">>

CloseDates == {NoDate, SlashDate, Feb01, Feb28, Apr10}

AsOfDates == {Feb15, Feb28}

QuarterDeal(closeDate, confidence, segment) ==
  [closeDate |-> closeDate, acv |-> 200, arrForecast |-> 100,
   confidenceQuarterClose |-> confidence, segment |-> segment]

QuarterDeals ==
  {QuarterDeal(c, 100, "Enterprise") : c \in CloseDates}
    \cup {QuarterDeal(Feb01, 50, "Enterprise"), QuarterDeal(Feb01, 100, "SMB")}

MetricInputs ==
  {<<>>,
   <<[monthSigned |-> <<0, 0, 0>>, monthForecasted |-> <<0, 0, 0>>, carryOver |-> 0]>>,
   <<[monthSigned |-> <<0, 300, 0>>, monthForecasted |-> <<0, 0, 50>>, carryOver |-> 70]>>}

DetailRows ==
  <<[monthIdx |-> <<1>>, signed |-> FALSE, acv |-> 200, arr |-> 100, confidence |-> 100],
    [monthIdx |-> <<0>>, signed |-> TRUE, acv |-> 200, arr |-> 100, confidence |-> 50],
    [monthIdx |-> <<>>, signed |-> TRUE, acv |-> 200, arr |-> 100, confidence |-> 100]>>

WaterfallInit ==
  /\ quarter \in {"2026Q1", "2026Q2", "2026Q3"}
  /\ projectionMetric \in {"acv", "inYearRevenue"}
  /\ asOfDate \in AsOfDates
  /\ quarterDeal \in SeqsUpTo(QuarterDeals, MaxDeals)
  /\ tabSegments \in {{}, {"Enterprise"}}
  /\ metricInput \in MetricInputs
  /\ q1Rows \in {<<>>, DetailRows}
  /\ q2Rows \in {<<>>, DetailRows}
  /\ waterfall = <<>>
  /\ wstep = "input"

\* the memo of the quarter tab computes its waterfall rows
WaterfallData ==
  /\ wstep = "input"
  /\ waterfall' = waterfallData
  /\ wstep' = "shown"
  /\ UNCHANGED <<quarter, projectionMetric, asOfDate, quarterDeal, tabSegments,
                 metricInput, q1Rows, q2Rows,
                 loaderVars, parserVars, entityVars, csvVars, coerceVars, aggVars,
                 viewVars>>

WaterfallNext == WaterfallData

InitWaterfall == WaterfallInit /\ LoaderIdle /\ ParserIdle /\ EntityIdle /\ CsvIdle
                 /\ CoerceIdle /\ AggIdle /\ ViewIdle

SpecWaterfall == InitWaterfall /\ [][WaterfallNext]_vars

\* a close date in the YYYY-MM-DD form the quarter tab works with
IsIsoDate(s) ==
  /\ Len(s) = 10
  /\ s[5] = "-" /\ s[8] = "-"
  /\ \A i \in {1, 2, 3, 4, 6, 7, 9, 10} : s[i] \in Digits

Dated(list) == SelectSeq(list, LAMBDA d : IsIsoDate(d.closeDate))

\* the row of the i-th month of the quarter, and the carry-over row
MonthRow(i) == waterfall[IF quarter = "2026Q1" THEN i ELSE i + 1]

CarryRow == waterfall[1]

RowTotal(r) == r.signed + r.forecasted

\* C18: a deal whose close date is missing or unparseable is in no month
\* bucket and in no running total: where the waterfall is computed from the
\* deals, every figure is the sum over the deals that have a date.
C18_UndatedExcluded ==
  (wstep = "shown" /\ UsesDeals) =>
    /\ \A i \in 1..3 :
         RowTotal(MonthRow(i)) =
           SumDeals(Dated(SelectSeq(ForMetric(deals),
                      LAMBDA d : startsWith(d.closeDate, MonthPrefix(QUARTER_MONTH_NUMS[quarter][i])))),
                    projectionMetric)
    /\ quarter = "2026Q3" =>
         /\ RowTotal(CarryRow) =
              SumDeals(Dated(ForMetric(SelectSeq(previousQuarterDeals,
                         LAMBDA d : StrLeq(d.closeDate, asOfDate)))),
                       projectionMetric)
         /\ MonthRow(1).baseline = RowTotal(CarryRow)

\* the calendar reading of a YYYY-MM-DD date
YearOf(s) == IntOf(SubSeq(s, 1, 4))

MonthOf(s) == IntOf(SubSeq(s, 6, 7))

DayOf(s) == IntOf(SubSeq(s, 9, 10))

OnOrBefore(s, t) ==
  \/ YearOf(s) < YearOf(t)
  \/ YearOf(s) = YearOf(t) /\ MonthOf(s) < MonthOf(t)
  \/ YearOf(s) = YearOf(t) /\ MonthOf(s) = MonthOf(t) /\ DayOf(s) <= DayOf(t)

\* the value of the deals of a list that close in the i-th month of the
\* quarter, on or before the as-of date (signed) or after it (not signed)
ClosingIn(list, i, signed) ==
  SumDeals(SelectSeq(list,
                     LAMBDA d : /\ IsIsoDate(d.closeDate)
                                /\ YearOf(d.closeDate) = 2026
                                /\ MonthOf(d.closeDate) = QUARTER_MONTH_NUMS[quarter][i]
                                /\ OnOrBefore(d.closeDate, asOfDate) = signed),
           projectionMetric)

\* as-of date 2026-02-15, two deals closing 2026-02-01 and 2026-02-28, each
\* worth 100 of in-year revenue
Scenario3 ==
  /\ quarter = "2026Q1"
  /\ projectionMetric = "inYearRevenue"
  /\ asOfDate = Feb15
  /\ tabSegments = {}
  /\ quarterDeal = <<QuarterDeal(Feb01, 100, "Enterprise"), QuarterDeal(Feb28, 100, "Enterprise")>>

RECURSIVE BucketDeals(_, _)
BucketDeals(q, i) ==
  IF i > 3 THEN <<>>
  ELSE SelectSeq(ForMetric(BySegments(getQuarterDeals(q))),
                 LAMBDA d : startsWith(d.closeDate, MonthPrefix(QUARTER_MONTH_NUMS[q][i])))
       \o BucketDeals(q, i + 1)

\* the signed plus forecasted total of quarter q under the selection and the
\* metric, from its details view when that has rows, else from its deals
QuarterTotal(q) ==
  LET rows == IF q = "2026Q1" THEN q1Rows ELSE IF q = "2026Q2" THEN q2Rows ELSE <<>>
  IN IF rows # <<>>
     THEN DetailSum(rows, projectionMetric, {0, 1, 2}, TRUE)
          + DetailSum(rows, projectionMetric, {0, 1, 2}, FALSE)
     ELSE SumDeals(BucketDeals(q, 1), projectionMetric)

RECURSIVE PriorTotal(_)
PriorTotal(prev) ==
  IF prev = <<>> THEN 0 ELSE QuarterTotal(prev[1]) + PriorTotal(Tail(prev))

\* C20: after the first quarter the carry-over row holds the accumulated
\* signed plus forecasted total of the prior quarters, and the first month is
\* stacked on it (checked where the sheet gives no figures for the quarter).
C20_CarryOverIsPriorTotal ==
  (wstep = "shown" /\ quarter # "2026Q1" /\ SheetInput = <<>>) =>
    /\ CarryRow.name = "Carry-over"
    /\ RowTotal(CarryRow) = PriorTotal(PREVIOUS_QUARTERS[quarter])
    /\ MonthRow(1).baseline = RowTotal(CarryRow)

TotalProjectedRow == waterfall[Len(waterfall) - 1]

\* C28: the Total Projected bar (signed + forecasted) equals the running
\* total reached after the third month bar: the carry-over bucket, when the
\* quarter has one, plus the three months' signed and forecasted sub-totals.
C28_TotalIsRunningTotal ==
  wstep = "shown" =>
    /\ RowTotal(TotalProjectedRow) = MonthRow(3).baseline + RowTotal(MonthRow(3))
    /\ RowTotal(TotalProjectedRow) =
         (IF quarter = "2026Q1" THEN 0 ELSE RowTotal(CarryRow))
           + RowTotal(MonthRow(1)) + RowTotal(MonthRow(2)) + RowTotal(MonthRow(3))

(***************************************************************************)
(* Derived views: the cumulative chart data, the top clients, the quarter  *)
(* targets, the deal distribution and the lost deals                       *)
(***************************************************************************)
MaxChartRows == 2

MONTH_COLS ==
  <<<<"j", "a", "n">>, <<"f", "e", "b">>, <<"m", "a", "r">>, <<"a", "p", "r">>,
    <<"m", "a", "y">>, <<"j", "u", "n">>, <<"j", "u", "l">>, <<"a", "u", "g">>,
    <<"s", "e", "p">>, <<"o", "c", "t">>, <<"n", "o", "v">>, <<"d", "e", "c">>>>

MetricCol == <<"m", "e", "t", "r", "i", "c">>

TypeCol == <<"t", "y", "p", "e">>

ToLowerCase(s) == [i \in 1..Len(s) |-> Lower(s[i])]

\* .replace(/\s+/g, '')
RemoveSpaces(s) == SelectSeq(s, LAMBDA c : ~IsSpace(c))

\* metricNorm[metricRaw] ?? (metricRaw === 'acv' ? 'acv' : null), <<>> = null
metricNorm(metricRaw) ==
  CASE metricRaw = <<"a", "c", "v">> -> <<"acv">>
    [] metricRaw = <<"i", "n", "y", "e", "a", "r", "r", "e", "v">> -> <<"inYearRevenue">>
    [] metricRaw = <<"i", "n", "y", "e", "a", "r", "r", "e", "v", "e", "n", "u", "e">> -> <<"inYearRevenue">>
    [] metricRaw = <<"a", "r", "r">> -> <<"arrTarget">>
    [] metricRaw = <<"a", "r", "r", "t", "a", "r", "g", "e", "t">> -> <<"arrTarget">>
    [] metricRaw = <<"c", "l", "i", "e", "n", "t", "w", "i", "n", "s">> -> <<"clientWins">>
    [] OTHER -> <<>>

\* typeNorm[typeRaw], <<>> = undefined
typeNorm(typeRaw) ==
  CASE typeRaw = <<"a", "c", "t", "u", "a", "l">> -> <<"actual">>
    [] typeRaw = <<"f", "o", "r", "e", "c", "a", "s", "t">> -> <<"forecast">>
    [] typeRaw = <<"t", "a", "r", "g", "e", "t">> -> <<"target">>
    [] OTHER -> <<>>

\* String(((cell(r, key) || r[key]) ?? '').trim())
TrimmedCell(r, key) == Trim(Nullish(Or(cell(r, key), Get(r, key)), Str(<<>>)).s)

ChartMetricKey(r) == metricNorm(RemoveSpaces(ToLowerCase(TrimmedCell(r, MetricCol))))

ChartTypeKey(r) == typeNorm(ToLowerCase(TrimmedCell(r, TypeCol)))

\* MONTH_COLS.map((col) => num(cell(r, col) || r[col])), in units of 1/Scale
ChartValues(r) ==
  [i \in 1..12 |-> num(Or(cell(r, MONTH_COLS[i]), Get(r, MONTH_COLS[i]))).n]

ZeroFilled == [i \in 1..12 |-> 0]

\* the first row of a metric and type supplies the series, not the last
RECURSIVE ChartFold_firstWins(_, _)
ChartFold_firstWins(rows, out) ==
  IF rows = <<>> THEN out
  ELSE LET r == rows[Len(rows)]
           m == ChartMetricKey(r)
           t == ChartTypeKey(r)
           front == SubSeq(rows, 1, Len(rows) - 1)
       IN IF m = <<>> \/ t = <<>> THEN ChartFold_firstWins(front, out)
          ELSE LET cur == IF m[1] \in DOMAIN out THEN out[m[1]]
                          ELSE [actual |-> ZeroFilled, forecast |-> ZeroFilled,
                                target |-> ZeroFilled]
               IN ChartFold_firstWins(front,
                    (m[1] :> [cur EXCEPT ![t[1]] = ChartValues(r)]) @@ out)

\* the loop of cumulativeChartData over the rows of the sheet; out maps the
\* metrics met so far to their three series
RECURSIVE ChartFold(_, _)
ChartFold(rows, out) ==
  IF rows = <<>> THEN out
  ELSE LET r == rows[1]
           m == ChartMetricKey(r)
           t == ChartTypeKey(r)
       IN IF m = <<>> \/ t = <<>> THEN ChartFold(Tail(rows), out)
          ELSE LET cur == IF m[1] \in DOMAIN out THEN out[m[1]]
                          ELSE [actual |-> ZeroFilled, forecast |-> ZeroFilled,
                                target |-> ZeroFilled]
               IN ChartFold(Tail(rows),
                            (m[1] :> [cur EXCEPT ![t[1]] = ChartValues(r)]) @@ out)

\* googleData.cumulativeChartData; the empty map stands for undefined
cumulativeChartData(rows) == ChartFold(rows, [k \in {} |-> ZeroFilled])

\* a series cut or zero-padded to 12 months
TwelveOf(series) == [i \in 1..12 |-> IF i <= Len(series) THEN series[i] ELSE 0]

\* getCumulativeChartData(metric), <<>> = null
getCumulativeChartData(chart, metric) ==
  IF metric \notin DOMAIN chart \/ Len(chart[metric].actual) = 0 THEN <<>>
  ELSE <<[actual |-> TwelveOf(chart[metric].actual),
          forecast |-> TwelveOf(chart[metric].forecast),
          target |-> TwelveOf(chart[metric].target)]>>

\* rows of the CumulativeChartData sheet: metric, type, Jan .. Dec
ChartRow(metricCell, typeCell, cells) ==
  (MetricCol :> metricCell) @@ (TypeCol :> typeCell)
    @@ [col \in {MONTH_COLS[i] : i \in 1..12} |->
          cells[CHOOSE i \in 1..12 : MONTH_COLS[i] = col]]

MonthCells ==
  {[i \in 1..12 |-> <<>>],
   [i \in 1..12 |-> IF i = 1 THEN <<"1">> ELSE <<"2">>],
   [i \in 1..12 |-> IF i = 1 THEN <<"2">> ELSE IF i = 2 THEN <<>> ELSE <<"3">>]}

ChartRows ==
  {ChartRow(m, t, c) :
     m \in {<<"A", "C", "V">>, <<"x">>},
     t \in {<<"A", "c", "t", "u", "a", "l">>, <<"F", "o", "r", "e", "c", "a", "s", "t">>, <<>>},
     c \in MonthCells}

ChartInit ==
  /\ viewFn = "getCumulativeChartData"
  /\ viewArg \in {"acv", "clientWins"}
  /\ viewRows \in SeqsUpTo(ChartRows, MaxChartRows)

GetCumulativeChartData ==
  /\ vstep = "input"
  /\ viewFn = "getCumulativeChartData"
  /\ viewOut' = getCumulativeChartData(cumulativeChartData(viewRows), viewArg)
  /\ vstep' = "done"
  /\ UNCHANGED <<viewFn, viewArg, viewRows, loaderVars, parserVars, entityVars,
                 csvVars, coerceVars, aggVars, waterfallVars>>

ChartTypes == {"actual", "forecast", "target"}

\* the rows of the sheet that name the metric and the series, by position
SupplyingRows(metric, type) ==
  {k \in 1..Len(viewRows) :
     ChartMetricKey(viewRows[k]) = <<metric>> /\ ChartTypeKey(viewRows[k]) = <<type>>}

HasRowFor(metric) == \E t \in ChartTypes : SupplyingRows(metric, t) # {}

\* the text of the cell of month i in the last row that supplies the series,
\* <<>> when no row supplies it or the cell is blank
SheetCell(metric, type, i) ==
  IF SupplyingRows(metric, type) = {} THEN <<>>
  ELSE LET k == CHOOSE k \in SupplyingRows(metric, type) :
                  \A j \in SupplyingRows(metric, type) : j <= k
       IN Trim(viewRows[k][MONTH_COLS[i]])

ChartShown == vstep = "done" /\ viewFn = "getCumulativeChartData" /\ viewOut # <<>>

\* C21 as stated: every series has one value for each of the 12 months, each
\* the running total up to that month, so that a month without data adds
\* zero to the total of the month before.
C21_RunningTotals ==
  ChartShown =>
    \A t \in ChartTypes :
      /\ Len(viewOut[1][t]) = 12
      /\ \A i \in 1..12 :
           SheetCell(viewArg, t, i) = <<>> =>
             viewOut[1][t][i] = (IF i = 1 THEN 0 ELSE viewOut[1][t][i - 1])

\* C21, amended: for a metric the sheet has a row for, every series has one
\* value for each of the 12 months in calendar order, each the number in the
\* sheet's cell of that month, and zero where the sheet has no row for the
\* series or the cell is blank; for any other metric there is no chart data.
C21_TwelveSheetValues ==
  (vstep = "done" /\ viewFn = "getCumulativeChartData") =>
    /\ viewOut # <<>> <=> HasRowFor(viewArg)
    /\ viewOut # <<>> =>
         \A t \in ChartTypes :
           /\ Len(viewOut[1][t]) = 12
           /\ \A i \in 1..12 :
                viewOut[1][t][i] =
                  (IF SheetCell(viewArg, t, i) = <<>> THEN 0
                   ELSE IntOf(SheetCell(viewArg, t, i)) * Scale)

C21_Witness ==
  /\ ChartShown
  /\ SupplyingRows(viewArg, "forecast") = {}
  /\ viewOut[1].forecast = ZeroFilled
  /\ SheetCell(viewArg, "actual", 1) = <<"2">>
  /\ SheetCell(viewArg, "actual", 2) = <<>>
  /\ viewOut[1].actual[1] = 2 * Scale /\ viewOut[1].actual[2] = 0
  /\ viewOut[1].actual[3] = 3 * Scale

MaxTopRows == 3

\* .sort((a, b) => b.volume - a.volume) with ties in reverse input order
RECURSIVE SortByVolume_lastOfTies(_)
SortByVolume_lastOfTies(cs) ==
  IF cs = <<>> THEN <<>>
  ELSE LET i == CHOOSE i \in 1..Len(cs) :
                  /\ \A j \in 1..Len(cs) : cs[j].volume <= cs[i].volume
                  /\ \A j \in (i + 1)..Len(cs) : cs[j].volume < cs[i].volume
       IN <<cs[i]>> \o SortByVolume_lastOfTies([j \in 1..(Len(cs) - 1) |->
                                                  IF j < i THEN cs[j] ELSE cs[j + 1]])

\* .sort((a, b) => b.volume - a.volume): descending, and stable, so that
\* equal volumes keep their order
RECURSIVE SortByVolume(_)
SortByVolume(cs) ==
  IF cs = <<>> THEN <<>>
  ELSE LET i == CHOOSE i \in 1..Len(cs) :
                  /\ \A j \in 1..Len(cs) : cs[j].volume <= cs[i].volume
                  /\ \A j \in 1..(i - 1) : cs[j].volume < cs[i].volume
       IN <<cs[i]>> \o SortByVolume([j \in 1..(Len(cs) - 1) |->
                                       IF j < i THEN cs[j] ELSE cs[j + 1]])

\* getTopClientsByVolume(data, limit) for limit >= 0
getTopClientsByVolume(d, limit) ==
  LET byClient == aggregateVolumeByClient(d)
      sorted == SortByVolume([k \in 1..Len(byClient) |->
                                [client |-> byClient[k].key, volume |-> byClient[k].volume]])
  IN SubSeq(sorted, 1, IF limit < Len(sorted) THEN limit ELSE Len(sorted))

TopRows ==
  [client : {<<>>, <<"A">>, <<"B">>, <<"C">>},
   transactionDate : {"2025-01-01"},
   totalVolume : {1, 2}]

TopInit ==
  /\ viewFn = "getTopClientsByVolume"
  /\ viewArg \in {0, 1, 2}
  /\ viewRows \in SeqsUpTo(TopRows, MaxTopRows)

GetTopClientsByVolume ==
  /\ vstep = "input"
  /\ viewFn = "getTopClientsByVolume"
  /\ viewOut' = getTopClientsByVolume(viewRows, viewArg)
  /\ vstep' = "done"
  /\ UNCHANGED <<viewFn, viewArg, viewRows, loaderVars, parserVars, entityVars,
                 csvVars, coerceVars, aggVars, waterfallVars>>

\* the clients of the rows in order of first occurrence, and their sums
Partitions == KeysInOrder([i \in 1..Len(viewRows) |-> ClientOf(viewRows[i])], {})

PartitionSum(c) ==
  SumOf(SelectSeq(viewRows, LAMBDA row : ClientOf(row) = c), "totalVolume")

FirstSeen(c) == CHOOSE k \in 1..Len(Partitions) : Partitions[k] = c

Returned == {viewOut[k].client : k \in 1..Len(viewOut)}

\* C22: top-N returns at most N partitions, in descending order of their
\* sums, holding the N largest sums, partitions of equal sum in input order.
C22_TopN ==
  (vstep = "done" /\ viewFn = "getTopClientsByVolume") =>
    /\ Len(viewOut) <= viewArg
    /\ Len(viewOut) = (IF viewArg < Len(Partitions) THEN viewArg ELSE Len(Partitions))
    /\ \A k \in 1..Len(viewOut) :
         /\ \E p \in 1..Len(Partitions) : Partitions[p] = viewOut[k].client
         /\ viewOut[k].volume = PartitionSum(viewOut[k].client)
    /\ \A j, k \in 1..Len(viewOut) :
         j < k =>
           /\ viewOut[j].client # viewOut[k].client
           /\ viewOut[j].volume >= viewOut[k].volume
           /\ viewOut[j].volume = viewOut[k].volume =>
                FirstSeen(viewOut[j].client) < FirstSeen(viewOut[k].client)
    /\ \A p \in 1..Len(Partitions) :
         Partitions[p] \notin Returned =>
           \A k \in 1..Len(viewOut) :
             /\ PartitionSum(Partitions[p]) <= viewOut[k].volume
             /\ PartitionSum(Partitions[p]) = viewOut[k].volume =>
                  FirstSeen(viewOut[k].client) < p

\* three partitions, the last two with equal sums larger than the first, cut to two
C22_Witness ==
  /\ vstep = "done" /\ viewFn = "getTopClientsByVolume"
  /\ viewArg = 2
  /\ Len(Partitions) = 3
  /\ PartitionSum(Partitions[1]) < PartitionSum(Partitions[2])
  /\ PartitionSum(Partitions[2]) = PartitionSum(Partitions[3])
  /\ viewOut[1].client = Partitions[2] /\ viewOut[2].client = Partitions[3]

MaxTargetRows == 2

DEFAULT_QUARTER_TARGETS ==
  [q \in {"2026Q1", "2026Q2", "2026Q3", "2026Q4"} |->
     CASE q = "2026Q1" -> [clientWins |-> 10, acv |-> 600000, inYearRevenue |-> 550000, arrTarget |-> 0]
       [] q = "2026Q2" -> [clientWins |-> 12, acv |-> 720000, inYearRevenue |-> 660000, arrTarget |-> 0]
       [] q = "2026Q3" -> [clientWins |-> 14, acv |-> 840000, inYearRevenue |-> 770000, arrTarget |-> 0]
       [] q = "2026Q4" -> [clientWins |-> 16, acv |-> 960000, inYearRevenue |-> 880000, arrTarget |-> 0]]

Upper(c) ==
  IF \E i \in 1..26 : LowerCase[i] = c
  THEN UpperSeq[CHOOSE i \in 1..26 : LowerCase[i] = c] ELSE c

ToUpperCase(s) == [i \in 1..Len(s) |-> Upper(s[i])]

\* the QuarterTargets rows are fetched even when the sheet has no GID
FetchedQuarterTargets_ignoreGid(gid, sheetRows) == sheetRows

\* googleSheetsConfig.sheetGids['QuarterTargets']
\*   ? fetchSheetOptional('QuarterTargets') : Promise.resolve([])
FetchedQuarterTargets(gid, sheetRows) == IF gid THEN sheetRows ELSE <<>>

\* googleData.quarterTargets: the typed row of each quarter named in the
\* sheet, the last row of a quarter replacing the earlier ones
RECURSIVE quarterTargets(_)
quarterTargets(rows) ==
  IF rows = <<>> THEN [k \in {} |-> 0]
  ELSE LET r == rows[Len(rows)]
           q == ToUpperCase(Trim(r.quarter))
           front == quarterTargets(SubSeq(rows, 1, Len(rows) - 1))
       IN IF q = <<>> THEN front
          ELSE (q :> [clientWins |-> r.clientWins, acv |-> r.acv,
                      inYearRevenue |-> r.inYearRevenue, arrTarget |-> r.arrTarget])
               @@ front

RECURSIVE SumSeq(_)
SumSeq(s) == IF s = <<>> THEN 0 ELSE s[1] + SumSeq(Tail(s))

\* sumFromByOwner(metric): byOwner is <<>> (undefined) or <<m>> where m maps
\* some metrics to the targets of their deal owners
sumFromByOwner(byOwner, metric) ==
  IF byOwner = <<>> THEN 0
  ELSE IF metric \in DOMAIN byOwner[1] THEN SumSeq(byOwner[1][metric]) ELSE 0

QuarterChars ==
  [q \in {"2026Q1", "2026Q2"} |->
     <<"2", "0", "2", "6", "Q", IF q = "2026Q1" THEN "1" ELSE "2">>]

\* getQuarterTargets(quarter)
getQuarterTargets(targets, byOwner, q) ==
  LET present == QuarterChars[q] \in DOMAIN targets
      fromSheet == targets[QuarterChars[q]]
      sums == [clientWins |-> sumFromByOwner(byOwner, "clientWins"),
               acv |-> sumFromByOwner(byOwner, "acv"),
               inYearRevenue |-> sumFromByOwner(byOwner, "inYearRevenue"),
               arrTarget |-> sumFromByOwner(byOwner, "arrTarget")]
  IN IF present /\ (fromSheet.clientWins > 0 \/ fromSheet.acv > 0
                    \/ fromSheet.inYearRevenue > 0 \/ fromSheet.arrTarget > 0)
     THEN [fromSheet EXCEPT !.arrTarget = IF fromSheet.arrTarget > 0
                                          THEN fromSheet.arrTarget ELSE sums.arrTarget]
     ELSE IF byOwner # <<>> /\ (sums.clientWins > 0 \/ sums.acv > 0
                                \/ sums.inYearRevenue > 0 \/ sums.arrTarget > 0)
     THEN sums
     ELSE DEFAULT_QUARTER_TARGETS[q]

TargetRows ==
  [quarter : {<<"2", "0", "2", "6", "q", "1">>, <<>>},
   clientWins : {0, 5}, acv : {0}, inYearRevenue : {0}, arrTarget : {0, 7}]

\* googleData.quarterTargetByDealOwner[quarter]
ByOwnerTargets ==
  {<<>>,
   <<[clientWins |-> <<>>, acv |-> <<>>, inYearRevenue |-> <<>>, arrTarget |-> <<>>]>>,
   <<[clientWins |-> <<>>, acv |-> <<3, 4>>, inYearRevenue |-> <<>>, arrTarget |-> <<>>]>>,
   <<[arrTarget |-> <<9>>]>>}

TargetsInit ==
  /\ viewFn = "getQuarterTargets"
  /\ viewArg \in [gid : BOOLEAN, quarter : {"2026Q1", "2026Q2"}, byOwner : ByOwnerTargets]
  /\ viewRows \in SeqsUpTo(TargetRows, MaxTargetRows)

GetQuarterTargets ==
  /\ vstep = "input"
  /\ viewFn = "getQuarterTargets"
  /\ viewOut' = getQuarterTargets(quarterTargets(FetchedQuarterTargets(viewArg.gid, viewRows)),
                                  viewArg.byOwner, viewArg.quarter)
  /\ vstep' = "done"
  /\ UNCHANGED <<viewFn, viewArg, viewRows, loaderVars, parserVars, entityVars,
                 csvVars, coerceVars, aggVars, waterfallVars>>

TargetsShown == vstep = "done" /\ viewFn = "getQuarterTargets"

HasOwnerTargets ==
  \E m \in {"clientWins", "acv", "inYearRevenue", "arrTarget"} :
    sumFromByOwner(viewArg.byOwner, m) > 0

MaxSegmentRows == 3

\* Math.round((value / total) * 100) for total > 0: halves round up
RoundedShare(value, total) == (200 * value + total) \div (2 * total)

\* getDealDist(selectedSegments) with googleData loaded
getDealDist(dealSegment, segs) ==
  LET list == IF segs # {} THEN SelectSeq(dealSegment, LAMBDA s : s.name \in segs)
              ELSE dealSegment
      total == SumOf(list, "value")
  IN IF total > 0
     THEN [k \in 1..Len(list) |-> [list[k] EXCEPT !.value = RoundedShare(list[k].value, total)]]
     ELSE list

DealSegments == [name : Segments, value : {-1, 0, 1, 2}]

DealDistInit ==
  /\ viewFn = "getDealDist"
  /\ viewArg \in SUBSET Segments
  /\ viewRows \in SeqsUpTo(DealSegments, MaxSegmentRows)

GetDealDist ==
  /\ vstep = "input"
  /\ viewFn = "getDealDist"
  /\ viewOut' = getDealDist(viewRows, viewArg)
  /\ vstep' = "done"
  /\ UNCHANGED <<viewFn, viewArg, viewRows, loaderVars, parserVars, entityVars,
                 csvVars, coerceVars, aggVars, waterfallVars>>

\* the total of the segments the selection admits (all when none is selected)
SelectedTotal ==
  SumOf(IF viewArg # {} THEN SelectSeq(viewRows, LAMBDA s : s.name \in viewArg)
        ELSE viewRows, "value")

\* C24: the deal-distribution values are shares between 0 and 100 that add
\* up to exactly 100 whenever the selected segments have a positive total.
C24_SharesSumTo100 ==
  (vstep = "done" /\ viewFn = "getDealDist") =>
    /\ \A k \in 1..Len(viewOut) : 0 <= viewOut[k].value /\ viewOut[k].value <= 100
    /\ SelectedTotal > 0 => SumOf(viewOut, "value") = 100

MaxMetricRows == 2

NoMetricInput == [monthSigned |-> <<0, 0, 0>>, monthForecasted |-> <<0, 0, 0>>, carryOver |-> 0]

AddMonths(acc, m) == [i \in 1..3 |-> acc[i] + m[i]]

\* one QuarterMetricInput row added to the entry of its quarter and metric;
\* the aggregate keeps the last positive carry_over, the breakdown adds it up
AddMetricRow(entry, r, addCarryOver) ==
  [monthSigned |-> IF r.status = "signed" THEN AddMonths(entry.monthSigned, r.months)
                   ELSE entry.monthSigned,
   monthForecasted |-> IF r.status = "forecasted"
                       THEN AddMonths(entry.monthForecasted, r.months)
                       ELSE entry.monthForecasted,
   carryOver |-> IF r.carry_over > 0
                 THEN (IF addCarryOver THEN entry.carryOver + r.carry_over ELSE r.carry_over)
                 ELSE entry.carryOver]

RECURSIVE MetricFold(_, _, _)
MetricFold(rows, entry, addCarryOver) ==
  IF rows = <<>> THEN entry
  ELSE MetricFold(Tail(rows), AddMetricRow(entry, Head(rows), addCarryOver), addCarryOver)

\* googleData.quarterMetricInput[quarter][metric], <<>> when no row names them
quarterMetricInput(rows) ==
  IF rows = <<>> THEN <<>> ELSE <<MetricFold(rows, NoMetricInput, FALSE)>>

\* googleData.quarterMetricInputBySegment[quarter][metric]: rows without a
\* segment are skipped
quarterMetricInputBySegment(rows) ==
  [s \in {rows[k].segment : k \in {j \in 1..Len(rows) : rows[j].segment # ""}} |->
     MetricFold(SelectSeq(rows, LAMBDA r : r.segment = s), NoMetricInput, TRUE)]

getQuarterMetricInput(rows) == quarterMetricInput(rows)

RECURSIVE SumEntries(_, _)
SumEntries(bySegment, segs) ==
  IF segs = {} THEN NoMetricInput
  ELSE LET s == CHOOSE x \in segs : TRUE
           rest == SumEntries(bySegment, segs \ {s})
           e == bySegment[s]
       IN [monthSigned |-> AddMonths(rest.monthSigned, e.monthSigned),
           monthForecasted |-> AddMonths(rest.monthForecasted, e.monthForecasted),
           carryOver |-> rest.carryOver + e.carryOver]

getQuarterMetricInputForSegments(rows, segments) ==
  LET bySegment == quarterMetricInputBySegment(rows)
  IN IF segments = {} \/ DOMAIN bySegment = {} THEN <<>>
     ELSE <<SumEntries(bySegment, segments \cap DOMAIN bySegment)>>

\* the monthly values and the carry-over of the waterfall of a quarter that
\* has neither deals nor details rows, from the sheet input the selection
\* picks: with a filter an all-zero input falls back to the (absent) deals
QuarterBars(q, active, input) ==
  LET used == IF active /\ input # <<>> /\ input[1] = NoMetricInput THEN <<>> ELSE input
      entry == IF used = <<>> THEN NoMetricInput ELSE used[1]
  IN [monthSigned |-> entry.monthSigned,
      monthForecasted |-> entry.monthForecasted,
      carryOver |-> IF q = "2026Q2" THEN 0 ELSE entry.carryOver]

MetricRows ==
  [status : {"signed", "forecasted"}, segment : Segments \cup {""},
   months : {<<0, 0, 0>>, <<100, 0, 0>>}, carry_over : {0, 70}]

QuarterBarsInit ==
  /\ viewFn = "quarterBars"
  /\ viewArg \in {"2026Q2", "2026Q3"}
  /\ viewRows \in SeqsUpTo(MetricRows, MaxMetricRows)

\* the waterfall input with no segment selected and with every segment selected
SelectSegments ==
  /\ vstep = "input"
  /\ viewFn = "quarterBars"
  /\ viewOut' = [none |-> QuarterBars(viewArg, FALSE, getQuarterMetricInput(viewRows)),
                 all |-> QuarterBars(viewArg, TRUE,
                                     getQuarterMetricInputForSegments(viewRows, Segments))]
  /\ vstep' = "done"
  /\ UNCHANGED <<viewFn, viewArg, viewRows, loaderVars, parserVars, entityVars,
                 csvVars, coerceVars, aggVars, waterfallVars>>

\* C29: selecting every available segment yields the same monthly signed and
\* forecasted values and the same carry-over in the quarter waterfall as
\* selecting none.
C29_AllSegmentsIsNoFilter ==
  (vstep = "done" /\ viewFn = "quarterBars") => viewOut.all = viewOut.none

MaxDetailRows == 2

\* key.toLowerCase().replace(/[^a-z0-9]+/g, '')
normalizeHeaderKey(key) ==
  SelectSeq(ToLowerCase(key), LAMBDA c : c \in Digits \cup {LowerTable[u] : u \in UpperCase})

RemovePercent(s) == SelectSeq(s, LAMBDA c : c # "%")

\* parseConfidence: blank and unparseable cells are 0, fractions up to 1 are
\* read as a share of 100
parseConfidence(cellText) ==
  LET s == RemovePercent(Trim(cellText))
      n == parseFloat(s)
  IN IF s = <<>> THEN 0
     ELSE IF n.t = "NaN" THEN 0
     ELSE IF n.n <= Scale THEN n.n * 100 ELSE n.n

IsSubstring(p, s) ==
  \E i \in 0..(Len(s) - Len(p)) : SubSeq(s, i + 1, i + Len(p)) = p

\* !Number.isNaN(Number(s)) for a cell of digits, points, signs and text
IsNumberText(s) ==
  LET t == Trim(s)
      body == IF t # <<>> /\ t[1] \in {"-", "+"} THEN Tail(t) ELSE t
      ip == DigitPrefix(body)
      rest == SubSeq(body, Len(ip) + 1, Len(body))
      fp == IF rest # <<>> /\ rest[1] = "." THEN DigitPrefix(Tail(rest)) ELSE <<>>
  IN \/ t = <<>>
     \/ rest = <<>> /\ ip # <<>>
     \/ rest # <<>> /\ rest[1] = "." /\ Len(fp) = Len(rest) - 1 /\ (ip # <<>> \/ fp # <<>>)

subHeaderPatterns ==
  {<<"y", "/", "n">>, <<"y", "e", "s", "/", "n", "o">>, <<"l", "a", "t", "e", "s", "t">>,
   <<"n", "e", "x", "t", " ", "s", "t", "e", "p", "s">>, <<"s", "t", "e", "p", "s">>,
   <<"h", "e", "a", "d", "e", "r">>, <<"s", "u", "b", "-", "h", "e", "a", "d", "e", "r">>,
   <<"s", "u", "b", "h", "e", "a", "d", "e", "r">>}

UnderscoresToSpaces(s) == [i \in 1..Len(s) |-> IF s[i] = "_" THEN " " ELSE s[i]]

\* the rows filterDataRows keeps of a table with the columns acv and
\* confidence, whose confidence column is headed `header'
IsDataRow(row, header) ==
  LET allColumns == <<Key.acv, header>>
      value == <<row.acv, row.confidence>>
      rowValue(i) == Trim(ToLowerCase(value[i]))
      colName(i) == Trim(ToLowerCase(allColumns[i]))
      matchingColumns ==
        {i \in 1..2 : rowValue(i) = colName(i) \/ rowValue(i) = UnderscoresToSpaces(colName(i))}
      rowValues == rowValue(1) \o <<" ">> \o rowValue(2)
      hasSubHeaderPattern == \E p \in subHeaderPatterns : IsSubstring(p, rowValues)
      numericValues ==
        {i \in 1..2 : Trim(value[i]) # <<>>
                      /\ IsNumberText(SelectSeq(value[i], LAMBDA c : c \notin {",", "$", "%"}))}
  IN /\ ~(2 * Cardinality(matchingColumns) > 2)
     /\ ~(hasSubHeaderPattern /\ 5 * Cardinality(numericValues) < 2)

filterDataRows(table, header) == SelectSeq(table, LAMBDA row : IsDataRow(row, header))

ConfidenceQ1Close ==
  <<"c", "o", "n", "f", "i", "d", "e", "n", "c", "e", "_", "q", "1", "_", "c", "l", "o", "s", "e">>

ConfidenceQ2Close ==
  <<"c", "o", "n", "f", "i", "d", "e", "n", "c", "e", "_", "q", "2", "_", "c", "l", "o", "s", "e">>

\* the name the lost-deals tab looks the confidence column up by
ConfidenceKey(source) ==
  normalizeHeaderKey(IF source = "Q1" THEN ConfidenceQ1Close ELSE ConfidenceQ2Close)

\* lostDeals for one details table: the data rows whose confidence parses to 0
lostDeals(table, source, header) ==
  IF table = <<>> \/ normalizeHeaderKey(header) # ConfidenceKey(source) THEN <<>>
  ELSE LET lost == SelectSeq(filterDataRows(table, header),
                             LAMBDA row : parseConfidence(row.confidence) = 0)
       IN [k \in 1..Len(lost) |-> [source |-> source, acv |-> Trim(lost[k].acv)]]

AcvCells == {<<"2", "0", "0">>, Key.acv, <<"s", "t", "e", "p", "s">>}

ConfidenceCells ==
  {<<>>, <<"0", "%">>, <<" ", "0", ".", "0", " ">>, <<"5", "0", "%">>, <<"0", ".", "5">>,
   <<"T", "B", "D">>, ConfidenceQ1Close}

DetailsRows == [acv : AcvCells, confidence : ConfidenceCells]

LostDealsInit ==
  /\ viewFn = "lostDeals"
  /\ viewArg \in [source : {"Q1", "Q2"}, header : {ConfidenceQ1Close, ConfidenceQ2Close}]
  /\ viewRows \in SeqsUpTo(DetailsRows, MaxDetailRows)

LostDeals ==
  /\ vstep = "input"
  /\ viewFn = "lostDeals"
  /\ viewOut' = lostDeals(viewRows, viewArg.source, viewArg.header)
  /\ vstep' = "done"
  /\ UNCHANGED <<viewFn, viewArg, viewRows, loaderVars, parserVars, entityVars,
                 csvVars, coerceVars, aggVars, waterfallVars>>

\* a confidence cell that reads as the number 0, with or without a % sign
MarkedZero(cellText) ==
  LET n == parseFloat(RemovePercent(Trim(cellText)))
  IN n.t = "number" /\ n.n = 0

\* the rows of the table that are data rows marked with 0% confidence
MarkedLost ==
  IF normalizeHeaderKey(viewArg.header) # ConfidenceKey(viewArg.source) THEN <<>>
  ELSE SelectSeq(viewRows, LAMBDA row : IsDataRow(row, viewArg.header)
                                        /\ MarkedZero(row.confidence))

\* C30: a row of the details table is listed as a lost deal if and only if it
\* is a data row marked with 0% confidence to close.
C30_LostIffZeroConfidence ==
  (vstep = "done" /\ viewFn = "lostDeals") =>
    viewOut = [k \in 1..Len(MarkedLost) |->
                 [source |-> viewArg.source, acv |-> Trim(MarkedLost[k].acv)]]

\* the derived views: one of the functions is applied to its input
ViewInit ==
  /\ ChartInit \/ TopInit \/ TargetsInit \/ DealDistInit
     \/ QuarterBarsInit \/ LostDealsInit
  /\ viewOut = <<>>
  /\ vstep = "input"

ViewNext ==
  \/ GetCumulativeChartData
  \/ GetTopClientsByVolume
  \/ GetQuarterTargets
  \/ GetDealDist
  \/ SelectSegments
  \/ LostDeals

InitView == ViewInit /\ LoaderIdle /\ ParserIdle /\ EntityIdle /\ CsvIdle
            /\ CoerceIdle /\ AggIdle /\ WaterfallIdle

SpecView == InitView /\ [][ViewNext]_vars

Init == LoaderInit /\ ParserIdle /\ EntityIdle /\ CalcIdle

Next == LoadData \/ FetchOk \/ FetchFail

Spec == Init /\ [][Next]_vars

\* A fetch that was issued settles: the browser resolves or rejects every
\* fetch() promise, and the continuations run as soon as it does. Some pending
\* fetch settling is all that is assumed; requests for a reload are not.
SpecLive == Init /\ [][Next]_vars /\ WF_vars(FetchOk \/ FetchFail)

Requested(l) == Len(loads) >= l

Completed(l) == Len(loads) >= l /\ loads[l].outcome \in {"fulfilled", "rejected"}

\* C27: every requested load eventually fulfils or rejects, and whenever the
\* loading flag is set it is eventually cleared, so that the loader never
\* stays loading forever.
C27_EventuallyNotLoading ==
  /\ \A l \in 1..MaxLoads : Requested(l) ~> Completed(l)
  /\ loading ~> ~loading

\* a reload was requested while the first load was in flight, one of the two
\* was rejected and the other fulfilled, and the loading flag is cleared
C27_Witness ==
  /\ Len(loads) = 2
  /\ loads[1].outcome = "rejected"
  /\ loads[2].outcome = "fulfilled"
  /\ \E t \in Sheets : loads[1].status[t] = "pending"
  /\ ~loading

====
